---- MODULE Spec2Model ----
(***************************************************************************)
(* The Zoom meeting recorder: the orchestrator of src/src/index.js (main,  *)
(* runRecordingSession, the SIGINT handler) over the process-wide recorder *)
(* state of src/src/screenRecorder.js (ffmpegProcess, recordingPath).      *)
(*                                                                         *)
(* One action is one turn of the Node event loop: the code that runs from  *)
(* the completion of an awaited operation up to the next await.  Promise   *)
(* reactions are microtasks, so a handler that settles a promise and the   *)
(* continuation of the caller awaiting it run in the same turn; where the  *)
(* model shows the state in between (a fired 'close' listener, a session   *)
(* in its catch block) no other turn may start (Busy).                     *)
(***************************************************************************)
EXTENDS Integers, FiniteSets, Sequences, TLC

\* Bounds of the model.  A run without interrupt signals has up to MaxSessions
\* cron fires; a run with interrupt signals has up to MaxIntSessions cron fires
\* and up to MaxInterrupts signals.
MaxSessions == 2
MaxIntSessions == 1
MaxInterrupts == 1
\* polls of the meeting window that monitorMeeting starts
MaxPolls == 4
\* fetches of the uploaded file's state that are counted; further ones are
\* made but leave the count as it is
MaxFilePolls == 3

\* What the environment of a run delivers: <<cron fires, interrupt signals>>.
Scenarios == {<<MaxSessions, 0>>, <<MaxIntSessions, MaxInterrupts>>}

\* cloudStorage.provider as configured; "absent" is a configuration without
\* cloudStorage or without its provider field.
Providers == {"absent", "google-drive", "onedrive", "local", "dropbox"}
\* configLoader, cloudUpload.js 60
KnownProviders == {"google-drive", "onedrive", "local"}

\* The configuration file as loadConfig meets it: whether it exists, whether
\* zoom.meetingLink and zoom.displayName are set, and the provider.
Configs == [file : {"absent", "present"}, meetingLink : BOOLEAN,
            displayName : BOOLEAN, provider : Providers]

\* A faulty variant of LoadConfig: the provider only has to be set.
LoadConfigAnyProvider(cfg) ==
    IF cfg.file = "absent" THEN "notFound"
    ELSE IF ~cfg.meetingLink \/ ~cfg.displayName THEN "invalid"
    ELSE IF cfg.provider = "absent" THEN "invalid"
    ELSE "loaded"

\* configLoader, cloudUpload.js 46-84: loadConfig throws when the file cannot
\* be read (ENOENT, with its own message) and when a required field is missing
\* or the provider is not a known one; otherwise it returns the configuration.
LoadConfig(cfg) ==
    IF cfg.file = "absent" THEN "notFound"
    ELSE IF ~cfg.meetingLink \/ ~cfg.displayName THEN "invalid"
    ELSE IF cfg.provider = "absent" THEN "invalid"
    ELSE IF cfg.provider \notin KnownProviders THEN "invalid"
    ELSE "loaded"

\* null, for the handle and for paths (screenRecorder.js: let ffmpegProcess = null)
Null == 0

Sessions == 1..MaxSessions
\* An interrupt signal's handler invocation; negative to keep them apart from sessions.
Interrupts == {0 - i : i \in 1..MaxInterrupts}
\* Whoever calls stopScreenRecording: a session (its stop, then its cleanup) or
\* a SIGINT handler invocation.
Callers == Sessions \cup Interrupts

\* The capture subprocess spawned by session s is subprocess s, and the path
\* startScreenRecording computes in session s is path s.
Procs == Sessions
Paths == Sessions

\* index.js steps 1..5 and post-processing, in the order of the source text
StageOrder == <<"join", "start", "monitor", "stop", "quit", "verify",
                "transcribe", "summarize", "report">>
Stages == {StageOrder[i] : i \in 1..Len(StageOrder)}
StageIndex(x) == CHOOSE i \in 1..Len(StageOrder) : StageOrder[i] = x

\* exit codes of the capture subprocess as the 'close' event reports them
ExitCodes == {"zero", "null", "nonzero"}

VARIABLES
    runNow,         \* process.argv.includes('--now')
    schedEnabled,   \* config.schedule && config.schedule.enabled
    config,         \* what loadConfig() finds in config/config.json
    cronBudget,     \* cron fires the environment delivers in this run
    sigBudget,      \* interrupt signals the environment delivers in this run
    mainPc,         \* main(): "load", "immediate", "scheduled", "failed"
    exitStatus,     \* "running", "exit0", "exit1"
    nFired,         \* sessions started so far
    pc,             \* session -> where runRecordingSession is suspended
    localPath,      \* session -> its local recordingPath
    transcriptPath, \* session -> whether its local transcriptPath is set
    summaryPath,    \* session -> whether its local summaryPath is set
    began,          \* session -> stages it has called
    ended,          \* session -> stages that returned or threw
    threw,          \* session -> stages that threw
    report,         \* session -> the final report it printed, or NoReport
    ffmpegProcess,  \* screenRecorder.js: the held handle (a subprocess or Null)
    recordingPath,  \* screenRecorder.js: the module's recordingPath
    procState,      \* subprocess -> "none", "running", "failed", "closed"
    fileOnDisk,     \* path -> "absent", "present", or "unknown" (not looked at yet)
    quitWrites,     \* subprocess -> number of 'q' written to its stdin
    stops,          \* caller -> its 'close' listener: [state, proc, code]
    stopLog,        \* caller -> its stopScreenRecording calls: [n, result]
    intPc,          \* interrupt -> "none", "stopWait", "done"
    monPromise,     \* monitorMeeting's promise: "none", "pending", or its value
    monTimer,       \* its setInterval timer: "off", "armed", "cleared"
    poll,           \* poll -> "unused", "running", or what it answered
    monResolveCalls,\* calls of resolve made so far
    monSettled,     \* times the promise went from pending to settled
    joinLog,        \* joinZoomMeeting step by step: [link, opener, script, result]
    quitLog,        \* quitZoom step by step: [graceful, kill, result]
    verifyLog,      \* uploadToCloud: [result, webUrl, shareLink]
    audio,          \* transcribeVideo's audio file: "none", "onDisk", "deleted"
    unlinkAttempts, \* calls of fs.unlink on the audio file
    trLog,          \* transcribeVideo step by step: [failedAt, written, result,
                    \* key, fileState, polls, generations]
    sumLog,         \* generateSummary: [result, failedAt, requests, written]
    fnCall,         \* a helper computation taken by itself: its name and input
    fnRet           \* and its result

inputVars == <<runNow, schedEnabled, config, cronBudget, sigBudget>>
mainVars == <<mainPc, exitStatus, nFired>>
sessVars == <<pc, localPath, transcriptPath, summaryPath, began, ended, threw, report>>
recVars == <<ffmpegProcess, recordingPath>>
procVars == <<procState, fileOnDisk, quitWrites>>
stopVars == <<stops, stopLog>>
\* the orchestrator and the recorder
progVars == <<inputVars, mainVars, sessVars, recVars, procVars, stopVars, intPc>>
\* monitorMeeting taken by itself
monVars == <<monPromise, monTimer, poll, monResolveCalls, monSettled>>
\* the helper functions taken by themselves
\* one session taken stage by stage
stageVars == <<joinLog, quitLog, verifyLog, audio, unlinkAttempts, trLog, sumLog>>
\* the computations inside the helper functions taken by themselves
fnVars == <<fnCall, fnRet>>
unitVars == <<monVars, stageVars, fnVars>>
vars == <<progVars, unitVars>>

\* the polls monitorMeeting's timer starts, in the order it starts them
Polls == 1..MaxPolls

\* index.js 138: loadConfig() returns rather than throws
cfgValid == LoadConfig(config) = "loaded"

NoReport == [printed |-> FALSE, recording |-> Null, transcript |-> FALSE, summary |-> FALSE]
NoListener == [state |-> "none", proc |-> Null, code |-> "none"]
NoCall == [n |-> 0, result |-> "none"]

\* The inputs of a run: the command line, the configuration and what the
\* environment delivers.
InitInputs ==
    /\ runNow \in BOOLEAN
    /\ schedEnabled \in BOOLEAN
    /\ config \in Configs
    \* no stage of a session reads which of the known providers is configured
    \* (uploadToCloud treats every value alike): the runs with more cron fires
    \* or with interrupts are explored with the local provider only
    /\ \E sc \in (IF config.provider = "local" THEN Scenarios
                   ELSE {<<MaxIntSessions, 0>>}) :
          cronBudget = sc[1] /\ sigBudget = sc[2]

\* index.js and screenRecorder.js as loaded: nothing started, nothing held.
InitProgram ==
    /\ mainPc = "load"
    /\ exitStatus = "running"
    /\ nFired = 0
    /\ pc = [s \in Sessions |-> "idle"]
    /\ localPath = [s \in Sessions |-> Null]
    /\ transcriptPath = [s \in Sessions |-> FALSE]
    /\ summaryPath = [s \in Sessions |-> FALSE]
    /\ began = [s \in Sessions |-> {}]
    /\ ended = [s \in Sessions |-> {}]
    /\ threw = [s \in Sessions |-> {}]
    /\ report = [s \in Sessions |-> NoReport]
    /\ ffmpegProcess = Null
    /\ recordingPath = Null
    /\ procState = [p \in Procs |-> "none"]
    /\ fileOnDisk = [q \in Paths |-> "absent"]
    /\ quitWrites = [p \in Procs |-> 0]
    /\ stops = [c \in Callers |-> NoListener]
    /\ stopLog = [c \in Callers |-> NoCall]
    /\ intPc = [i \in Interrupts |-> "none"]

\* monitorMeeting not called yet
InitMonitor ==
    /\ monPromise = "none"
    /\ monTimer = "off"
    /\ poll = [p \in Polls |-> "unused"]
    /\ monResolveCalls = 0
    /\ monSettled = 0

NoJoin == [link |-> "none", opener |-> "none", script |-> "none", result |-> "none"]
NoQuit == [graceful |-> "none", kill |-> "none", result |-> "none"]
NoUrl == [scheme |-> "none", path |-> Null]
NoVerification == [result |-> "none", webUrl |-> NoUrl, shareLink |-> NoUrl]
NoTranscription == [failedAt |-> "none", written |-> FALSE, result |-> "none",
                    key |-> "unread", fileState |-> "none", polls |-> 0,
                    generations |-> 0]
NoSummary == [result |-> "none", failedAt |-> "none", requests |-> 0, written |-> FALSE]
NoComputation == [fn |-> "none"]

\* no helper function called yet
InitStages ==
    /\ joinLog = NoJoin
    /\ quitLog = NoQuit
    /\ verifyLog = NoVerification
    /\ audio = "none"
    /\ unlinkAttempts = 0
    /\ trLog = NoTranscription
    /\ sumLog = NoSummary

\* no computation taken by itself
InitComputation ==
    /\ fnCall = NoComputation
    /\ fnRet = NoComputation

Init == InitInputs /\ InitProgram /\ InitMonitor /\ InitStages /\ InitComputation

\* A turn of the event loop is in progress: a 'close' event is being delivered
\* to its listeners, or a session's rejected await is unwinding into its catch.
Busy ==
    \/ \E c \in Callers : stops[c].state = "fired"
    \/ \E s \in Sessions : pc[s] = "catch"

\* A new turn can start: the process has not exited and no turn is in progress.
Idle == exitStatus = "running" /\ ~Busy

\* What fs.stat / fs.access of a path can answer: a file not looked at since
\* its subprocess was spawned may be there or not; once seen it stays as seen.
Answers(path) ==
    IF path = Null THEN {FALSE}
    ELSE IF fileOnDisk[path] = "unknown" THEN BOOLEAN
    ELSE {fileOnDisk[path] = "present"}

\* fileOnDisk after the path has been looked at, with the answer given
Seen(path, exists) ==
    IF path = Null THEN fileOnDisk
    ELSE [fileOnDisk EXCEPT ![path] = IF exists THEN "present" ELSE "absent"]

\* A faulty variant of ExitAfterSession: process.exit(0) after every session,
\* the cron callback's included.
ExitAfterEverySession == "exit0"

\* index.js 143-144, 161-162: in immediate mode process.exit(0) follows the
\* awaited session; index.js 154-155: the cron callback only logs.
ExitAfterSession == IF mainPc = "immediate" THEN "exit0" ELSE exitStatus

\* A faulty variant of SessionDone: the catch block ends the process with
\* code 1 when the session failed at join or at stop.
SessionDoneExitOnFatal(s) ==
    /\ pc' = [pc EXCEPT ![s] = "done"]
    /\ exitStatus' = IF threw[s] \cap {"join", "stop"} # {} THEN "exit1"
                      ELSE ExitAfterSession

\* runRecordingSession returns (normally, or out of its catch block).
SessionDone(s) ==
    /\ pc' = [pc EXCEPT ![s] = "done"]
    /\ exitStatus' = ExitAfterSession

\* main(), index.js 137-168: load the configuration, then run one session at
\* once or register the cron trigger.  runRecordingSession runs synchronously
\* up to its first await (fs.mkdir).
Main ==
    /\ Idle
    /\ mainPc = "load"
    /\ IF ~cfgValid
       THEN /\ mainPc' = "failed"
            /\ exitStatus' = "exit1"
            /\ UNCHANGED <<nFired, pc>>
       ELSE IF runNow \/ ~schedEnabled
       THEN /\ mainPc' = "immediate"
            /\ nFired' = 1
            /\ pc' = [pc EXCEPT ![1] = "join"]
            /\ UNCHANGED exitStatus
       ELSE \E cronOk \in BOOLEAN :
            /\ mainPc' = IF cronOk THEN "scheduled" ELSE "failed"
            /\ exitStatus' = IF cronOk THEN exitStatus ELSE "exit1"
            /\ UNCHANGED <<nFired, pc>>
    /\ UNCHANGED <<unitVars, inputVars, localPath, transcriptPath, summaryPath, began, ended,
                   threw, report, recVars, procVars, stopVars, intPc>>

\* index.js 152-155: the cron callback starts a session, whatever earlier
\* sessions are doing.
CronFire ==
    /\ Idle
    /\ mainPc = "scheduled"
    /\ nFired < cronBudget
    /\ nFired' = nFired + 1
    /\ pc' = [pc EXCEPT ![nFired + 1] = "join"]
    /\ UNCHANGED <<unitVars, inputVars, mainPc, exitStatus, localPath, transcriptPath,
                   summaryPath, began, ended, threw, report, recVars, procVars,
                   stopVars, intPc>>

\* A faulty variant of Spawn: a handle already held is kept, the new
\* subprocess is spawned without being referenced.
SpawnKeepsHeldHandle(s, spawned) ==
    /\ recordingPath' = s
    /\ ffmpegProcess' = IF ffmpegProcess = Null THEN s ELSE ffmpegProcess
    /\ procState' = [procState EXCEPT ![s] = IF spawned THEN "running" ELSE "failed"]
    /\ fileOnDisk' = [fileOnDisk EXCEPT ![s] = IF spawned THEN "unknown" ELSE "absent"]

\* screenRecorder.js 20-56: startScreenRecording, resumed after its fs.mkdir,
\* overwrites the module's recordingPath and ffmpegProcess, whatever they held.
\* spawn returns a handle even when the binary is missing (the 'error' listener
\* of lines 70-77 only logs), and then there is no output file.
Spawn(s, spawned) ==
    /\ recordingPath' = s
    /\ ffmpegProcess' = s
    /\ procState' = [procState EXCEPT ![s] = IF spawned THEN "running" ELSE "failed"]
    /\ fileOnDisk' = [fileOnDisk EXCEPT ![s] = IF spawned THEN "unknown" ELSE "absent"]

\* index.js 25-37, part_000 14-173: the output directories are made (taken to
\* succeed), then joinZoomMeeting throws (link unparseable, opener failed), or
\* it returns (the UI automation's failure is only logged) and
\* startScreenRecording is called and spawns the capture subprocess.
JoinZoomMeeting(s) ==
    /\ Idle
    /\ pc[s] = "join"
    /\ \E outcome \in {"linkUnparseable", "launchFailed", "automationFailed", "joined"} :
         IF outcome \in {"linkUnparseable", "launchFailed"}
         THEN /\ pc' = [pc EXCEPT ![s] = "catch"]
              /\ began' = [began EXCEPT ![s] = @ \cup {"join"}]
              /\ ended' = [ended EXCEPT ![s] = @ \cup {"join"}]
              /\ threw' = [threw EXCEPT ![s] = @ \cup {"join"}]
              /\ UNCHANGED <<recVars, procState, fileOnDisk>>
         ELSE /\ pc' = [pc EXCEPT ![s] = "settle"]
              /\ began' = [began EXCEPT ![s] = @ \cup {"join", "start"}]
              /\ ended' = [ended EXCEPT ![s] = @ \cup {"join"}]
              /\ \E spawned \in BOOLEAN : Spawn(s, spawned)
              /\ UNCHANGED threw
    /\ UNCHANGED <<unitVars, inputVars, mainVars, localPath, transcriptPath, summaryPath,
                   report, quitWrites, stopVars, intPc>>

\* screenRecorder.js 80-83 and index.js 37-44: after the settle delay
\* startScreenRecording returns the module's recordingPath as it is then, and
\* the session calls monitorMeeting.
StartReturn(s) ==
    /\ Idle
    /\ pc[s] = "settle"
    /\ localPath' = [localPath EXCEPT ![s] = recordingPath]
    /\ ended' = [ended EXCEPT ![s] = @ \cup {"start"}]
    /\ began' = [began EXCEPT ![s] = @ \cup {"monitor"}]
    /\ pc' = [pc EXCEPT ![s] = "monitor"]
    /\ UNCHANGED <<unitVars, inputVars, mainVars, transcriptPath, summaryPath, threw, report,
                   recVars, procVars, stopVars, intPc>>

\* A faulty variant of StopSync: with no handle held the call rejects instead
\* of resolving to null.
StopSyncRejectsIdle(c) ==
    IF ffmpegProcess = Null
    THEN /\ stopLog' = [stopLog EXCEPT ![c] = [n |-> @.n + 1, result |-> "noRecording"]]
         /\ UNCHANGED <<stops, quitWrites>>
    ELSE /\ quitWrites' = [quitWrites EXCEPT ![ffmpegProcess] = @ + 1]
         /\ stops' = [stops EXCEPT ![c] =
                [state |-> "awaitClose", proc |-> ffmpegProcess, code |-> "none"]]
         /\ stopLog' = [stopLog EXCEPT ![c] = [n |-> @.n + 1, result |-> "pending"]]

\* screenRecorder.js 94-107: the synchronous part of stopScreenRecording, called
\* by c.  With no handle held it resolves to null at once; otherwise it writes
\* 'q' to the held subprocess's stdin, ends that stream and listens for 'close'
\* on that subprocess.
StopSync(c) ==
    IF ffmpegProcess = Null
    THEN /\ stopLog' = [stopLog EXCEPT ![c] = [n |-> @.n + 1, result |-> "null"]]
         /\ UNCHANGED <<stops, quitWrites>>
    ELSE /\ quitWrites' = [quitWrites EXCEPT ![ffmpegProcess] = @ + 1]
         /\ stops' = [stops EXCEPT ![c] =
                [state |-> "awaitClose", proc |-> ffmpegProcess, code |-> "none"]]
         /\ stopLog' = [stopLog EXCEPT ![c] = [n |-> @.n + 1, result |-> "pending"]]

\* A faulty variant of StopScreenRecording: the session does not await
\* monitorMeeting and calls stopScreenRecording as soon as the recorder started.
StopWithoutAwaitingMonitor(s) ==
    /\ Idle
    /\ pc[s] = "settle"
    /\ StopSync(s)
    /\ began' = [began EXCEPT ![s] = @ \cup
                    (IF ffmpegProcess = Null THEN {"monitor", "stop", "quit"}
                     ELSE {"monitor", "stop"})]
    /\ ended' = [ended EXCEPT ![s] = @ \cup
                    (IF ffmpegProcess = Null THEN {"start", "stop"} ELSE {"start"})]
    /\ localPath' = [localPath EXCEPT ![s] = IF ffmpegProcess = Null THEN Null
                                              ELSE recordingPath]
    /\ pc' = [pc EXCEPT ![s] = IF ffmpegProcess = Null THEN "quit" ELSE "stopWait"]
    /\ UNCHANGED <<unitVars, inputVars, mainVars, transcriptPath, summaryPath, threw, report,
                   recVars, procState, fileOnDisk, intPc>>

\* part_000 179-212 and index.js 44-54: monitorMeeting has resolved and the 2 s
\* delay has passed (neither touches the recorder); the session calls
\* stopScreenRecording.  A stop that resolved to null assigns null to the
\* session's recordingPath and the session goes on to quitZoom.
StopScreenRecording(s) ==
    /\ Idle
    /\ pc[s] = "monitor"
    /\ StopSync(s)
    /\ began' = [began EXCEPT ![s] = @ \cup
                    (IF ffmpegProcess = Null THEN {"stop", "quit"} ELSE {"stop"})]
    /\ ended' = [ended EXCEPT ![s] = @ \cup
                    (IF ffmpegProcess = Null THEN {"monitor", "stop"} ELSE {"monitor"})]
    /\ localPath' = [localPath EXCEPT ![s] = IF ffmpegProcess = Null THEN Null ELSE @]
    /\ pc' = [pc EXCEPT ![s] = IF ffmpegProcess = Null THEN "quit" ELSE "stopWait"]
    /\ UNCHANGED <<unitVars, inputVars, mainVars, transcriptPath, summaryPath, threw, report,
                   recVars, procState, fileOnDisk, intPc>>

\* The capture subprocess exits, asked to or not, and its 'close' event fires,
\* with the exit code, for the listeners attached to it at that moment.
ProcClose(p) ==
    /\ Idle
    /\ procState[p] = "running"
    /\ procState' = [procState EXCEPT ![p] = "closed"]
    /\ LET heard == {c \in Callers : stops[c].state = "awaitClose" /\ stops[c].proc = p}
       IN  \E code \in IF heard = {} THEN {"none"} ELSE ExitCodes :
             stops' = [c \in Callers |->
                          IF c \in heard
                          THEN [state |-> "fired", proc |-> p, code |-> code]
                          ELSE stops[c]]
    /\ UNCHANGED <<unitVars, inputVars, mainVars, sessVars, recVars, fileOnDisk, quitWrites,
                   stopLog, intPc>>

\* A faulty variant of HandleAfterClose: the handle is cleared only on the
\* path that resolves.
HandleClearedOnSuccess(result) == IF result = "path" THEN Null ELSE ffmpegProcess

\* screenRecorder.js 125: the listener's last statement, whatever it did before.
HandleAfterClose(result) == Null

\* A faulty variant of Continue: the session goes on to quitZoom also when its
\* stop rejected.
ContinueQuitsAfterFailedStop(c, result, value) ==
    IF c \in Interrupts
    THEN /\ intPc' = [intPc EXCEPT ![c] = "done"]
         /\ exitStatus' = "exit0"
         /\ UNCHANGED <<pc, localPath, began, ended, threw>>
    ELSE IF pc[c] = "cleanupWait"
    THEN /\ SessionDone(c)
         /\ UNCHANGED <<localPath, began, ended, threw, intPc>>
    ELSE /\ localPath' = [localPath EXCEPT ![c] = IF result = "path" THEN value ELSE @]
         /\ ended' = [ended EXCEPT ![c] = @ \cup {"stop"}]
         /\ began' = [began EXCEPT ![c] = @ \cup {"quit"}]
         /\ threw' = [threw EXCEPT ![c] = IF result = "path" THEN @ ELSE @ \cup {"stop"}]
         /\ pc' = [pc EXCEPT ![c] = "quit"]
         /\ UNCHANGED <<exitStatus, intPc>>

\* The caller awaiting the stop that has just settled runs on: the session's
\* stop (index.js 51-54, or 111 when it rejected), the session's cleanup stop
\* (index.js 120-126) or the SIGINT handler's (index.js 177-182).
Continue(c, result, value) ==
    IF c \in Interrupts
    THEN /\ intPc' = [intPc EXCEPT ![c] = "done"]
         /\ exitStatus' = "exit0"
         /\ UNCHANGED <<pc, localPath, began, ended, threw>>
    ELSE IF pc[c] = "cleanupWait"
    THEN /\ SessionDone(c)
         /\ UNCHANGED <<localPath, began, ended, threw, intPc>>
    ELSE IF result = "path"
    THEN /\ localPath' = [localPath EXCEPT ![c] = value]
         /\ ended' = [ended EXCEPT ![c] = @ \cup {"stop"}]
         /\ began' = [began EXCEPT ![c] = @ \cup {"quit"}]
         /\ pc' = [pc EXCEPT ![c] = "quit"]
         /\ UNCHANGED <<exitStatus, threw, intPc>>
    ELSE /\ ended' = [ended EXCEPT ![c] = @ \cup {"stop"}]
         /\ threw' = [threw EXCEPT ![c] = @ \cup {"stop"}]
         /\ pc' = [pc EXCEPT ![c] = "catch"]
         /\ UNCHANGED <<exitStatus, localPath, began, intPc>>

\* screenRecorder.js 116-125: the listener resolves or rejects the stop's
\* promise and clears the module's handle; the caller then runs on.
Settle(c, result, value) ==
    /\ ffmpegProcess' = HandleAfterClose(result)
    /\ stops' = [stops EXCEPT ![c] = NoListener]
    /\ stopLog' = [stopLog EXCEPT ![c].result = result]
    /\ Continue(c, result, value)
    /\ UNCHANGED <<unitVars, inputVars, mainPc, nFired, transcriptPath, summaryPath, report,
                   recordingPath, procState, quitWrites>>

\* A faulty variant of CloseHandler: only exit code 0 counts as a clean exit, a
\* null code (terminated by a signal) rejects.
CloseHandlerZeroOnly(c) ==
    /\ exitStatus = "running"
    /\ stops[c].state = "fired"
    /\ IF stops[c].code = "zero"
       THEN /\ stops' = [stops EXCEPT ![c].state = "awaitStat", ![c].code = "none"]
            /\ UNCHANGED <<unitVars, inputVars, mainVars, sessVars, recVars, procVars, stopLog,
                           intPc>>
       ELSE /\ Settle(c, "encoderExit", Null)
            /\ UNCHANGED fileOnDisk

\* screenRecorder.js 107-113, 121-125: a 'close' listener runs.  Exit code 0 or
\* null: it calls fs.stat and suspends; any other code: it rejects.
CloseHandler(c) ==
    /\ exitStatus = "running"
    /\ stops[c].state = "fired"
    /\ IF stops[c].code \in {"zero", "null"}
       THEN /\ stops' = [stops EXCEPT ![c].state = "awaitStat", ![c].code = "none"]
            /\ UNCHANGED <<unitVars, inputVars, mainVars, sessVars, recVars, procVars, stopLog,
                           intPc>>
       ELSE /\ Settle(c, "encoderExit", Null)
            /\ UNCHANGED fileOnDisk

\* screenRecorder.js 113-120, 125: fs.stat of the module's recordingPath, as it
\* is now, returns or throws.
StatDone(c) ==
    /\ Idle
    /\ stops[c].state = "awaitStat"
    /\ \E exists \in Answers(recordingPath) :
         /\ fileOnDisk' = Seen(recordingPath, exists)
         /\ IF exists
            THEN Settle(c, "path", recordingPath)
            ELSE Settle(c, "missing", Null)

\* index.js 111-126: the catch block.  The cleanup stop runs only if the session
\* holds a recording path and the module does.
Catch(s) ==
    /\ exitStatus = "running"
    /\ pc[s] = "catch"
    /\ IF localPath[s] # Null /\ recordingPath # Null
       THEN /\ StopSync(s)
            /\ IF ffmpegProcess = Null
               THEN SessionDone(s)
               ELSE /\ pc' = [pc EXCEPT ![s] = "cleanupWait"]
                    /\ UNCHANGED exitStatus
       ELSE /\ SessionDone(s)
            /\ UNCHANGED <<stopVars, quitWrites>>
    /\ UNCHANGED <<unitVars, inputVars, mainPc, nFired, localPath, transcriptPath, summaryPath,
                   began, ended, threw, report, recVars, procState, fileOnDisk, intPc>>

\* A faulty variant of FinalReport: the transcript is listed only together
\* with the summary.
FinalReportAllOrNothing(s, transcript, summary) ==
    [printed |-> TRUE, recording |-> localPath[s],
     transcript |-> transcript /\ summary, summary |-> summary]

\* index.js 96-109: the final report prints each of the three paths that is set.
FinalReport(s, transcript, summary) ==
    [printed |-> TRUE, recording |-> localPath[s], transcript |-> transcript,
     summary |-> summary]

\* The stages of index.js 54-93 that threw, given what each one met: quitZoom
\* never throws (part_000 233-243); uploadToCloud throws when fs.access fails
\* (cloudUpload.js 13, 28-30); generateSummary is reached only when
\* transcribeVideo returned (index.js 74-87).
PostThrew(exists, transcribed, summarized) ==
    (IF exists THEN {} ELSE {"verify"})
        \cup (IF transcribed THEN {} ELSE {"transcribe"})
        \cup (IF transcribed /\ ~summarized THEN {"summarize"} ELSE {})

\* The stages of index.js 54-109 that were called.
PostBegan(transcribed) ==
    {"quit", "verify", "transcribe", "report"}
        \cup (IF transcribed THEN {"summarize"} ELSE {})

\* index.js 54-109: after the stop, quitZoom, uploadToCloud (its error caught
\* and logged), transcribeVideo and generateSummary (one try block, its error
\* caught and logged), then the final report.  None of them reads or writes the
\* recorder's state, so their awaits are folded into one turn.  transcribeVideo
\* can return only with the recording there to extract audio from
\* (transcription.js 55).
PostProcess(s) ==
    /\ Idle
    /\ pc[s] = "quit"
    /\ \E exists \in Answers(localPath[s]), transcribed \in BOOLEAN, summarized \in BOOLEAN :
         /\ transcribed => exists
         /\ summarized => transcribed
         /\ fileOnDisk' = Seen(localPath[s], exists)
         /\ threw' = [threw EXCEPT ![s] = @ \cup PostThrew(exists, transcribed, summarized)]
         /\ began' = [began EXCEPT ![s] = @ \cup PostBegan(transcribed)]
         /\ ended' = [ended EXCEPT ![s] = @ \cup PostBegan(transcribed)]
         /\ transcriptPath' = [transcriptPath EXCEPT ![s] = transcribed]
         /\ summaryPath' = [summaryPath EXCEPT ![s] = summarized]
         /\ report' = [report EXCEPT ![s] = FinalReport(s, transcribed, summarized)]
    /\ SessionDone(s)
    /\ UNCHANGED <<unitVars, inputVars, mainPc, nFired, localPath, recVars, procState,
                   quitWrites, stopVars, intPc>>

\* index.js 172-183: the SIGINT handler.  It stops the recorder if the module
\* holds a recording path, and exits with code 0 once that stop has settled.
Sigint(i) ==
    /\ Idle
    /\ intPc[i] = "none"
    /\ 0 - i <= sigBudget
    /\ \A j \in Interrupts : j > i => intPc[j] # "none"
    /\ IF recordingPath # Null
       THEN /\ StopSync(i)
            /\ intPc' = [intPc EXCEPT ![i] = IF ffmpegProcess = Null THEN "done"
                                             ELSE "stopWait"]
            /\ exitStatus' = IF ffmpegProcess = Null THEN "exit0" ELSE exitStatus
       ELSE /\ intPc' = [intPc EXCEPT ![i] = "done"]
            /\ exitStatus' = "exit0"
            /\ UNCHANGED <<stopVars, quitWrites>>
    /\ UNCHANGED <<unitVars, inputVars, mainPc, nFired, sessVars, recVars, procState,
                   fileOnDisk>>

\* index.js 143, 161, 186: in immediate mode main() awaits the session and is
\* itself not awaited, and no timer is registered.  When everything still
\* pending is a 'close' listener on a subprocess that has already closed (or
\* never ran), nothing is left for the event loop to wait for and the process
\* ends with exit code 0.  In scheduled mode the cron trigger keeps it running.
LoopDrained ==
    /\ Idle
    /\ mainPc = "immediate"
    /\ pc[1] \in {"stopWait", "cleanupWait"}
    /\ \A p \in Procs : procState[p] # "running"
    /\ \A c \in Callers : stops[c].state \in {"none", "awaitClose"}
    /\ exitStatus' = "exit0"
    /\ UNCHANGED <<unitVars, inputVars, mainPc, nFired, sessVars, recVars, procVars, stopVars,
                   intPc>>

\* The runtime's reaction to 'q' written to a stdin stream that an earlier
\* stopScreenRecording has ended (screenRecorder.js 104-105 run twice on one
\* subprocess).  While the subprocess runs, the stream may still be there: the
\* write then raises an 'error' event on it, nothing listens for that, and the
\* process dies of the uncaught exception with exit code 1.  If the stream has
\* been torn down already the write is dropped, which is this step not taken.
StdinError ==
    /\ Idle
    /\ \E p \in Procs : quitWrites[p] >= 2 /\ procState[p] = "running"
    /\ exitStatus' = "exit1"
    /\ UNCHANGED <<unitVars, inputVars, mainPc, nFired, sessVars, recVars, procVars, stopVars,
                   intPc>>

Next ==
    \/ Main
    \/ CronFire
    \/ \E s \in Sessions : JoinZoomMeeting(s)
    \/ \E s \in Sessions : StartReturn(s)
    \/ \E s \in Sessions : StopScreenRecording(s)
    \/ \E p \in Procs : ProcClose(p)
    \/ \E c \in Callers : CloseHandler(c)
    \/ \E c \in Callers : StatDone(c)
    \/ \E s \in Sessions : Catch(s)
    \/ \E s \in Sessions : PostProcess(s)
    \/ \E i \in Interrupts : Sigint(i)
    \/ StdinError
    \/ LoopDrained

Spec == Init /\ [][Next]_vars

(***************************************************************************)
(* Properties of the specification's claims.                               *)
(***************************************************************************)

\* the stages after stage x in the fixed order
Later(x) == {StageOrder[i] : i \in (StageIndex(x) + 1)..Len(StageOrder)}

\* the stages session s ran to a normal return
Succeeded(s) == ended[s] \ threw[s]

\* the step is a call of stopScreenRecording by c
StopCalled(c) == stopLog'[c].n = stopLog[c].n + 1

\* C1: in every session the stages run in the fixed order: a stage has begun
\* only when every stage before it has completed (summarize alone is passed
\* over, when transcription threw).  In particular the capture subprocess is
\* spawned only after join has returned, stopScreenRecording is called only
\* after monitorMeeting has resolved, and transcription begins only after the
\* session's stop has resolved.
StagesInOrder ==
    \A s \in Sessions :
        /\ ended[s] \subseteq began[s]
        /\ \A i \in 1..Len(StageOrder) : \A j \in 1..(i - 1) :
              StageOrder[i] \in began[s] =>
                  \/ StageOrder[j] \in ended[s]
                  \/ StageOrder[j] = "summarize" /\ "transcribe" \in threw[s]
        /\ procState[s] # "none" => "join" \in Succeeded(s)
        /\ stopLog[s].n > 0 => "monitor" \in Succeeded(s)
        /\ "transcribe" \in began[s] =>
              /\ "stop" \in Succeeded(s)
              /\ stopLog[s].n = 1
              /\ stopLog[s].result \in {"null", "path"}

\* A session has run all nine stages and printed its report.
FullSessionRan ==
    \E s \in Sessions : began[s] = Stages /\ ended[s] = Stages /\ report[s].printed

\* C2: at most one capture subprocess spawned by startScreenRecording is
\* alive in any reachable state.
AtMostOneCaptureAlive ==
    Cardinality({p \in Procs : procState[p] = "running"}) <= 1

\* the stages whose failure reaches the session's catch block
FatalStages == {"join", "stop"}

\* C3: in scheduled mode a session that failed at join (link unparseable,
\* launch failure) or at stop (non-zero exit code, output file missing) runs
\* none of its later stages and prints no report; the process exits only by
\* an interrupt's handler or of a quit written twice to one subprocess
\* (StdinError), not by a session's failure; and once the failed session has
\* returned, the next cron fire can start a session.
FatalAbortsSessionOnly ==
    mainPc = "scheduled" =>
        /\ \A s \in Sessions : \A x \in threw[s] \cap FatalStages :
              /\ began[s] \cap Later(x) = {}
              /\ ~report[s].printed
        /\ exitStatus # "running" =>
               \/ \E i \in Interrupts : intPc[i] = "done"
               \/ \E p \in Procs : quitWrites[p] >= 2
        /\ (/\ \E s \in Sessions : pc[s] = "done" /\ threw[s] \cap FatalStages # {}
            /\ exitStatus = "running"
            /\ ~Busy
            /\ nFired < cronBudget) => ENABLED CronFire

\* In scheduled mode the first session failed at its stop and returned, the
\* process is still running, and the session of the next cron fire has run all
\* its stages and reported its own recording.
NextFireAfterAbort ==
    /\ mainPc = "scheduled"
    /\ exitStatus = "running"
    /\ pc[1] = "done" /\ "stop" \in threw[1] /\ ~report[1].printed
    /\ pc[2] = "done" /\ began[2] = Stages /\ report[2].recording = 2

\* C4: if transcription throws, the summary stage is not invoked, the final
\* report is printed with the recording path and with neither the transcript
\* path nor the summary path, and the process does not exit with a non-zero code.
TranscriptionFailureReport ==
    \A s \in Sessions :
        "transcribe" \in threw[s] =>
            /\ "summarize" \notin began[s]
            /\ report[s].printed
            /\ report[s].recording # Null
            /\ ~report[s].transcript
            /\ ~report[s].summary
            /\ exitStatus # "exit1"

\* both AI stages of session s returned
BothSucceeded(s) == {"transcribe", "summarize"} \subseteq Succeeded(s)

SessionStarts == \E s \in Sessions : pc[s] = "idle" /\ pc'[s] # "idle"

\* the step is the return of a session
SessionReturns == \E s \in Sessions : pc[s] # "done" /\ pc'[s] = "done"

\* C6: with the schedule disabled or the immediate-run flag given, exactly one
\* session is started (by main itself), the step in which it returns exits the
\* process with code 0, and after that start the process exits with code 1
\* only of a quit written twice to one subprocess (StdinError); with the
\* schedule enabled and no flag, sessions are started by cron fires only and
\* the step in which a session returns does not exit the process.
TriggerModes ==
    [][/\ SessionStarts =>
             \/ Main /\ (runNow \/ ~schedEnabled) /\ nFired' = 1
             \/ CronFire /\ ~runNow /\ schedEnabled
       /\ mainPc = "immediate" =>
             /\ nFired' = 1
             /\ exitStatus' = "exit1" => \E p \in Procs : quitWrites[p] >= 2
       /\ SessionReturns =>
             exitStatus' = IF runNow \/ ~schedEnabled THEN "exit0" ELSE exitStatus
      ]_vars

\* The immediate run's session has printed its report and returned, and the
\* process has exited with code 0.
ImmediateRunExited ==
    /\ mainPc = "immediate"
    /\ nFired = 1
    /\ pc[1] = "done"
    /\ report[1].printed
    /\ exitStatus = "exit0"

\* C7: a call of stopScreenRecording with no handle held resolves to null,
\* writes no quit byte, attaches no listener and leaves the handle and the
\* module's recording path as they were; and a caller's second call, made after
\* its first has settled, is such a call.
StopWithoutHandleIsNoOp ==
    [][\A c \in Callers :
          /\ StopCalled(c) /\ ffmpegProcess = Null =>
                /\ stopLog'[c].result = "null"
                /\ quitWrites' = quitWrites
                /\ stops' = stops
                /\ ffmpegProcess' = Null
                /\ recordingPath' = recordingPath
          /\ StopCalled(c) /\ stopLog[c].n > 0 =>
                /\ stopLog[c].result \notin {"pending", "none"}
                /\ ffmpegProcess = Null
                /\ stopLog'[c].result = "null"
      ]_vars

\* A session's cleanup stop, issued after its first stop was rejected, has
\* resolved to null.
SecondStopReturnedNull ==
    \E s \in Sessions :
        /\ stopLog[s].n = 2
        /\ stopLog[s].result = "null"
        /\ "stop" \in threw[s]

\* C8: a call of stopScreenRecording with a handle held writes the quit byte
\* to the held subprocess and stays pending; when the subprocess closes with a
\* code other than 0 or null the call rejects (the encoder's exit) without
\* looking at the file; when it closes with code 0 or null the file is looked
\* at, and the call resolves to the module's recording path if the file is
\* there and rejects (recording missing) if it is not.
StopMapsExit ==
    [][\A c \in Callers :
          /\ StopCalled(c) /\ ffmpegProcess # Null =>
                /\ quitWrites'[ffmpegProcess] = quitWrites[ffmpegProcess] + 1
                /\ stops'[c].state = "awaitClose" /\ stops'[c].proc = ffmpegProcess
                /\ stopLog'[c].result = "pending"
          /\ stops[c].state = "fired" /\ stops'[c] # stops[c] =>
                IF stops[c].code \in {"zero", "null"}
                THEN stops'[c].state = "awaitStat" /\ stopLog'[c].result = "pending"
                ELSE stopLog'[c].result = "encoderExit" /\ fileOnDisk' = fileOnDisk
          /\ stops[c].state = "awaitStat" /\ stops'[c] # stops[c] =>
                /\ recordingPath # Null
                /\ fileOnDisk'[recordingPath] \in {"present", "absent"}
                /\ stopLog'[c].result =
                      IF fileOnDisk'[recordingPath] = "present" THEN "path" ELSE "missing"
                /\ (c \in Sessions /\ stopLog'[c].result = "path") =>
                      localPath'[c] = recordingPath
      ]_vars

\* One session's stop has resolved to a path after a close with a null code,
\* and another session's stop has been rejected for the encoder's exit code.
StopOutcomesSeen ==
    \E s, u \in Sessions :
        /\ stopLog[s].result = "path" /\ localPath[s] # Null
        /\ stopLog[u].result = "encoderExit"

\* C9: whenever a pending stopScreenRecording call settles, resolved or
\* rejected, the module's handle is null in the state its caller runs on in.
StopSettledClearsHandle ==
    [][\A c \in Callers :
          stopLog[c].result = "pending" /\ stopLog'[c].result # "pending" =>
              /\ stopLog'[c].result \in {"path", "encoderExit", "missing"}
              /\ ffmpegProcess' = Null
      ]_vars

\* A stop made with a handle held was rejected for a missing file, and the
\* handle is null as its caller enters the catch block.
RejectedStopClearedHandle ==
    \E s \in Sessions :
        /\ stopLog[s].result = "missing"
        /\ pc[s] = "catch"
        /\ ffmpegProcess = Null

\* C10: in every state where no capture subprocess is live and no stop is in
\* flight, the handle and the value of getRecordingPath are null.
CaptureStateCleared ==
    (/\ \A p \in Procs : procState[p] # "running"
     /\ \A c \in Callers : stops[c].state = "none") =>
        /\ ffmpegProcess = Null
        /\ recordingPath = Null

\* C11: a capture subprocess that failed to spawn (encoder binary missing)
\* makes startScreenRecording throw, and the session begins none of the stages
\* after start: it does not wait for the meeting's end, stop the recorder or
\* post-process.
SpawnFailureAbortsSession ==
    \A s \in Sessions :
        procState[s] = "failed" /\ pc[s] # "settle" =>
            /\ "start" \in threw[s]
            /\ began[s] \cap Later("start") = {}
            /\ stopLog[s].n = 0

\* C12: a start replaces the process-wide handle (and recording path) with
\* the subprocess it spawns, whatever was held; and a subprocess that has been
\* spawned and is no longer the held one is never written the quit byte, never
\* listened to by a later stop and never held again: once a second session's
\* start has replaced the handle, no stop reaches the first subprocess.
ReplacedSubprocessIsOrphaned ==
    [][\A p \in Procs :
          /\ procState[p] = "none" /\ procState'[p] # "none" =>
                ffmpegProcess' = p /\ recordingPath' = p
          /\ procState[p] # "none" /\ ffmpegProcess # p =>
                /\ quitWrites'[p] = quitWrites[p]
                /\ ffmpegProcess' # p
                /\ \A c \in Callers : stops'[c].proc = p => stops[c].proc = p
      ]_vars

\* Both sessions of two overlapping cron fires have returned, the second
\* subprocess was asked to quit and has closed, and the first subprocess was
\* never asked to quit and is still running.
OrphanOutlivesSessions ==
    /\ mainPc = "scheduled"
    /\ pc[1] = "done" /\ pc[2] = "done"
    /\ procState[1] = "running" /\ quitWrites[1] = 0
    /\ procState[2] = "closed" /\ quitWrites[2] >= 1
    /\ ffmpegProcess = Null

\* C13: when the configuration file is missing, or zoom.meetingLink,
\* zoom.displayName or cloudStorage.provider is, or the provider is none of
\* google-drive, onedrive and local, loadConfig throws; then no session is ever
\* started, the cron trigger is never registered, and main ends the process
\* with exit code 1 (the process can end otherwise only by an interrupt that
\* arrives before the configuration is loaded).
BadConfigStartsNothing ==
    (\/ config.file = "absent"
     \/ ~config.meetingLink
     \/ ~config.displayName
     \/ config.provider \notin {"google-drive", "onedrive", "local"}) =>
        /\ LoadConfig(config) # "loaded"
        /\ nFired = 0
        /\ \A s \in Sessions : pc[s] = "idle" /\ began[s] = {}
        /\ mainPc \in {"load", "failed"}
        /\ mainPc = "failed" <=> exitStatus = "exit1"
        /\ exitStatus = "exit0" => \E i \in Interrupts : intPc[i] = "done"
        /\ mainPc = "load" /\ exitStatus = "running" => ENABLED Main

\* A complete configuration naming a provider outside the known three was
\* rejected and the process has exited with code 1.
UnknownProviderRejected ==
    /\ config.file = "present" /\ config.meetingLink /\ config.displayName
    /\ config.provider = "dropbox"
    /\ mainPc = "failed"
    /\ exitStatus = "exit1"

(***************************************************************************)
(* monitorMeeting (zoomJoiner.js, src/unnamed/part_000 179-212) taken by   *)
(* itself: a timer starts a poll of the meeting window every 5 s, whether  *)
(* or not the polls before it have answered.                               *)
(***************************************************************************)

\* The inputs of a run in which the orchestrator does nothing: the helper
\* functions are called on their own.
UnitInputs ==
    /\ runNow = TRUE
    /\ schedEnabled = FALSE
    /\ config = [file |-> "present", meetingLink |-> TRUE, displayName |-> TRUE,
                 provider |-> "local"]
    /\ cronBudget = 0
    /\ sigBudget = 0

\* what a poll can answer: osascript printed "true" (the window is there),
\* printed "false" (it is gone), or failed
PollAnswers == {"present", "gone", "error"}

\* part_000 181-183, 210: monitorMeeting returns a pending promise and arms
\* the 5 s timer.
MonitorCall ==
    /\ monPromise = "none"
    /\ monPromise' = "pending"
    /\ monTimer' = "armed"
    /\ UNCHANGED <<progVars, stageVars, fnVars, poll, monResolveCalls, monSettled>>

\* part_000 183-196: the timer fires while armed and its callback starts the
\* osascript query; polls started earlier may still be running.
IntervalFire(p) ==
    /\ monTimer = "armed"
    /\ poll[p] = "unused"
    /\ \A q \in Polls : q < p => poll[q] # "unused"
    /\ poll' = [poll EXCEPT ![p] = "running"]
    /\ UNCHANGED <<progVars, stageVars, fnVars, monPromise, monTimer, monResolveCalls, monSettled>>

\* A faulty variant of PollEnds: an answer is an end of the meeting unless it
\* is an error.
PollEndsUnlessError(answer) == answer # "error"

\* part_000 198, 204: the answers on which a poll ends the wait: the window is
\* gone (stdout is 'false'), or the query threw.
PollEnds(answer) == answer \in {"gone", "error"}

\* part_000 196-208: a poll's query returns or throws.  On an answer that ends
\* the wait the callback clears the timer and calls resolve('ended'); a
\* promise already settled is not settled again.
PollReturns(p, answer) ==
    /\ poll[p] = "running"
    /\ poll' = [poll EXCEPT ![p] = answer]
    /\ IF PollEnds(answer)
       THEN /\ monTimer' = "cleared"
            /\ monResolveCalls' = monResolveCalls + 1
            /\ monPromise' = IF monPromise = "pending" THEN "ended" ELSE monPromise
            /\ monSettled' = IF monPromise = "pending" THEN monSettled + 1
                             ELSE monSettled
       ELSE UNCHANGED <<monTimer, monResolveCalls, monPromise, monSettled>>
    /\ UNCHANGED <<progVars, stageVars, fnVars>>

MonitorNext ==
    \/ MonitorCall
    \/ \E p \in Polls : IntervalFire(p)
    \/ \E p \in Polls, answer \in PollAnswers : PollReturns(p, answer)

\* monitorMeeting is about to be called on its own.
MonitorInit == UnitInputs /\ InitProgram /\ InitMonitor /\ InitStages /\ InitComputation

SpecMonitor == MonitorInit /\ [][MonitorNext]_vars

\* the step is the return of a poll with the given answers
PollAnswered(answers) ==
    \E p \in Polls : poll[p] = "running" /\ poll'[p] \in answers

\* C14: monitorMeeting's promise settles at most once and only to 'ended';
\* it settles in a step in which a poll reported the window gone or raised an
\* error, and the first such poll settles it; a poll that reports the window
\* present changes neither the promise nor the timer; and while the promise is
\* pending the timer stays armed and no poll has answered anything but
\* 'present' (nothing else, no timeout, ends the wait).  Several polls may be
\* running at once.
MonitorResolvesOnce ==
    [][/\ monPromise = "pending" /\ monPromise' # "pending" =>
             monPromise' = "ended" /\ PollAnswered({"gone", "error"})
       /\ monPromise = "ended" => monPromise' = "ended" /\ monSettled' = monSettled
       /\ monSettled' <= 1
       /\ PollAnswered({"gone", "error"}) =>
             monPromise' = "ended" /\ monTimer' = "cleared"
       /\ PollAnswered({"present"}) =>
             monPromise' = monPromise /\ monTimer' = monTimer
       /\ monPromise' = "pending" =>
             /\ monTimer' = "armed"
             /\ \A p \in Polls : poll'[p] \in {"unused", "running", "present"}
      ]_vars

\* Three polls were running at once; one reported the window gone and settled
\* the promise, one raised an error afterwards and called resolve again, and
\* one reported the window present.
OverlappingPollsSettledOnce ==
    /\ monPromise = "ended"
    /\ monSettled = 1
    /\ monResolveCalls = 2
    /\ \E p, q, r \in Polls : poll[p] = "gone" /\ poll[q] = "error" /\ poll[r] = "present"

(***************************************************************************)
(* One session taken stage by stage: joinZoomMeeting, quitZoom,            *)
(* uploadToCloud, transcribeVideo and generateSummary step by step, around *)
(* the recorder's actions above.  No second cron fire and no interrupt.    *)
(***************************************************************************)

\* what the UI-automation part of joinZoomMeeting can meet: the script file
\* cannot be written, the script runs through, or osascript exits with an
\* error (no join button, the meeting window not appearing in time, a script
\* error)
ScriptOutcomes == {"notWritten", "ok", "noButton", "timeout", "scriptError"}

\* index.js 25-33, part_000 14-34: the output directories are made (taken to
\* succeed) and joinZoomMeeting is called; it throws before doing anything
\* else when no meeting identifier can be read from the link.
JoinParseLink(s) ==
    /\ Idle
    /\ pc[s] = "join"
    /\ began' = [began EXCEPT ![s] = @ \cup {"join"}]
    /\ \E parses \in BOOLEAN :
         IF parses
         THEN /\ joinLog' = [joinLog EXCEPT !.link = "parsed"]
              /\ pc' = [pc EXCEPT ![s] = "joinOpen"]
              /\ UNCHANGED <<ended, threw>>
         ELSE /\ joinLog' = [joinLog EXCEPT !.link = "unparseable", !.result = "threw"]
              /\ pc' = [pc EXCEPT ![s] = "catch"]
              /\ ended' = [ended EXCEPT ![s] = @ \cup {"join"}]
              /\ threw' = [threw EXCEPT ![s] = @ \cup {"join"}]
    /\ UNCHANGED <<monVars, fnVars, sumLog, quitLog, verifyLog, audio, unlinkAttempts, trLog,
                   inputVars, mainVars, localPath, transcriptPath, summaryPath,
                   report, recVars, procVars, stopVars, intPc>>

\* A faulty variant of JoinOpenLink: the opener's failure is only logged and
\* joinZoomMeeting goes on to the automation script.
JoinOpenLinkFailureLogged(s) ==
    /\ Idle
    /\ pc[s] = "joinOpen"
    /\ \E opened \in BOOLEAN :
         joinLog' = [joinLog EXCEPT !.opener = IF opened THEN "ok" ELSE "failed"]
    /\ pc' = [pc EXCEPT ![s] = "joinScript"]
    /\ UNCHANGED <<monVars, fnVars, sumLog, quitLog, verifyLog, audio, unlinkAttempts, trLog,
                   inputVars, mainVars, localPath, transcriptPath, summaryPath,
                   began, ended, threw, report, recVars, procVars, stopVars, intPc>>

\* part_000 62-72: the deep link is handed to the OS opener; its failure is
\* logged and rethrown.
JoinOpenLink(s) ==
    /\ Idle
    /\ pc[s] = "joinOpen"
    /\ \E opened \in BOOLEAN :
         IF opened
         THEN /\ joinLog' = [joinLog EXCEPT !.opener = "ok"]
              /\ pc' = [pc EXCEPT ![s] = "joinScript"]
              /\ UNCHANGED <<ended, threw>>
         ELSE /\ joinLog' = [joinLog EXCEPT !.opener = "failed", !.result = "threw"]
              /\ pc' = [pc EXCEPT ![s] = "catch"]
              /\ ended' = [ended EXCEPT ![s] = @ \cup {"join"}]
              /\ threw' = [threw EXCEPT ![s] = @ \cup {"join"}]
    /\ UNCHANGED <<monVars, fnVars, sumLog, quitLog, verifyLog, audio, unlinkAttempts, trLog,
                   inputVars, mainVars, localPath, transcriptPath, summaryPath,
                   began, report, recVars, procVars, stopVars, intPc>>

\* A faulty variant of JoinAfterScript: a failed automation script makes
\* joinZoomMeeting throw.
JoinThrowsOnScriptFailure(outcome) == IF outcome = "ok" THEN "returned" ELSE "threw"

\* part_000 150-172: whatever became of the automation script, its error is
\* caught and logged and joinZoomMeeting returns the meeting identifier.
JoinAfterScript(outcome) == "returned"

\* part_000 150-172, index.js 33-37, screenRecorder.js 18-56: the automation
\* script is written and run; joinZoomMeeting returns, and the session calls
\* startScreenRecording, which spawns the capture subprocess.
JoinAutomate(s) ==
    /\ Idle
    /\ pc[s] = "joinScript"
    /\ ended' = [ended EXCEPT ![s] = @ \cup {"join"}]
    /\ \E outcome \in ScriptOutcomes :
         /\ joinLog' = [joinLog EXCEPT !.script = outcome,
                                       !.result = JoinAfterScript(outcome)]
         /\ IF JoinAfterScript(outcome) = "returned"
            THEN /\ pc' = [pc EXCEPT ![s] = "settle"]
                 /\ began' = [began EXCEPT ![s] = @ \cup {"start"}]
                 /\ \E spawned \in BOOLEAN : Spawn(s, spawned)
                 /\ UNCHANGED threw
            ELSE /\ pc' = [pc EXCEPT ![s] = "catch"]
                 /\ threw' = [threw EXCEPT ![s] = @ \cup {"join"}]
                 /\ UNCHANGED <<began, recVars, procState, fileOnDisk>>
    /\ UNCHANGED <<monVars, fnVars, sumLog, quitLog, verifyLog, audio, unlinkAttempts, trLog,
                   inputVars, mainVars, localPath, transcriptPath, summaryPath,
                   report, quitWrites, stopVars, intPc>>

\* part_000 217-232: quitZoom asks the application to quit.  If that succeeds
\* it waits a second and returns to the session (index.js 54-57); if it fails
\* the catch block goes on to the fallback.
QuitGraceful(s) ==
    /\ Idle
    /\ pc[s] = "quit"
    /\ \E quitted \in BOOLEAN :
         IF quitted
         THEN /\ quitLog' = [quitLog EXCEPT !.graceful = "ok", !.result = "returned"]
              /\ pc' = [pc EXCEPT ![s] = "verify"]
              /\ ended' = [ended EXCEPT ![s] = @ \cup {"quit"}]
         ELSE /\ quitLog' = [quitLog EXCEPT !.graceful = "failed"]
              /\ pc' = [pc EXCEPT ![s] = "quitKill"]
              /\ UNCHANGED ended
    /\ UNCHANGED <<monVars, fnVars, sumLog, joinLog, verifyLog, audio, unlinkAttempts, trLog,
                   inputVars, mainVars, localPath, transcriptPath, summaryPath,
                   began, threw, report, recVars, procVars, stopVars, intPc>>

\* A faulty variant of QuitAfterKill: a failed fallback is rethrown.
QuitThrowsOnFailedKill(killed) == IF killed THEN "returned" ELSE "threw"

\* part_000 236-242: the fallback's failure is caught and logged; quitZoom
\* returns either way.
QuitAfterKill(killed) == "returned"

\* part_000 233-243: the fallback, killall by name.
QuitKill(s) ==
    /\ Idle
    /\ pc[s] = "quitKill"
    /\ ended' = [ended EXCEPT ![s] = @ \cup {"quit"}]
    /\ \E killed \in BOOLEAN :
         /\ quitLog' = [quitLog EXCEPT !.kill = IF killed THEN "ok" ELSE "failed",
                                       !.result = QuitAfterKill(killed)]
         /\ IF QuitAfterKill(killed) = "returned"
            THEN /\ pc' = [pc EXCEPT ![s] = "verify"]
                 /\ UNCHANGED threw
            ELSE /\ pc' = [pc EXCEPT ![s] = "catch"]
                 /\ threw' = [threw EXCEPT ![s] = @ \cup {"quit"}]
    /\ UNCHANGED <<monVars, fnVars, sumLog, joinLog, verifyLog, audio, unlinkAttempts, trLog,
                   inputVars, mainVars, localPath, transcriptPath, summaryPath,
                   began, report, recVars, procVars, stopVars, intPc>>

\* A faulty variant of UploadToCloud: a provider other than local is refused.
UploadToCloudLocalOnly(path, accessible, provider) ==
    IF ~accessible \/ provider # "local"
    THEN [result |-> "threw", webUrl |-> NoUrl, shareLink |-> NoUrl]
    ELSE [result |-> "returned",
          webUrl |-> [scheme |-> "file", path |-> path],
          shareLink |-> [scheme |-> "file", path |-> path]]

\* cloudUpload.js 8-32: uploadToCloud rethrows the failure of fs.access;
\* otherwise it returns file:// locations of the path, for the local provider
\* and (with a warning) for every other one.
UploadToCloud(path, accessible, provider) ==
    IF ~accessible
    THEN [result |-> "threw", webUrl |-> NoUrl, shareLink |-> NoUrl]
    ELSE IF provider = "local"
    THEN [result |-> "returned",
          webUrl |-> [scheme |-> "file", path |-> path],
          shareLink |-> [scheme |-> "file", path |-> path]]
    ELSE [result |-> "returned",
          webUrl |-> [scheme |-> "file", path |-> path],
          shareLink |-> [scheme |-> "file", path |-> path]]

\* What fs.access of the session's recording path can answer at verification:
\* no path is not accessible; a file that stopScreenRecording saw may have
\* been removed or made unreadable since.
AccessAnswers(path) == IF path = Null THEN {FALSE} ELSE BOOLEAN

\* index.js 56-72: verification.  uploadToCloud is called with the session's
\* recording path and the configured provider; its error is caught and logged,
\* and the session goes on to transcription.
Verify(s) ==
    /\ Idle
    /\ pc[s] = "verify"
    /\ \E exists \in AccessAnswers(localPath[s]) :
         /\ verifyLog' = UploadToCloud(localPath[s], exists, config.provider)
         /\ fileOnDisk' = Seen(localPath[s], exists)
         /\ threw' = [threw EXCEPT ![s] = @ \cup
                         (IF verifyLog'.result = "threw" THEN {"verify"} ELSE {})]
    /\ began' = [began EXCEPT ![s] = @ \cup {"verify", "transcribe"}]
    /\ ended' = [ended EXCEPT ![s] = @ \cup {"verify"}]
    /\ pc' = [pc EXCEPT ![s] = "transcribe"]
    /\ UNCHANGED <<monVars, fnVars, sumLog, joinLog, quitLog, audio, unlinkAttempts, trLog,
                   inputVars, mainVars, localPath, transcriptPath, summaryPath,
                   report, recVars, procState, quitWrites, stopVars, intPc>>

\* transcribeVideo throws at the given step: its outer catch logs and rethrows
\* (transcription.js 118-121), the session's catch logs (index.js 90-93) and
\* the session goes on to the final report.
TranscriptionThrows(s, step) ==
    /\ trLog' = [trLog EXCEPT !.failedAt = step, !.result = "threw"]
    /\ ended' = [ended EXCEPT ![s] = @ \cup {"transcribe"}]
    /\ threw' = [threw EXCEPT ![s] = @ \cup {"transcribe"}]
    /\ pc' = [pc EXCEPT ![s] = "report"]

\* transcription.js 43-55: without the API key transcribeVideo throws at once;
\* with it, it starts the audio extraction.
TranscribeBegin(s) ==
    /\ Idle
    /\ pc[s] = "transcribe"
    /\ \E keySet \in BOOLEAN :
         IF keySet
         THEN /\ pc' = [pc EXCEPT ![s] = "trExtract"]
              /\ trLog' = [trLog EXCEPT !.key = "set"]
              /\ UNCHANGED <<ended, threw>>
         ELSE /\ ended' = [ended EXCEPT ![s] = @ \cup {"transcribe"}]
              /\ threw' = [threw EXCEPT ![s] = @ \cup {"transcribe"}]
              /\ pc' = [pc EXCEPT ![s] = "report"]
              /\ trLog' = [trLog EXCEPT !.key = "absent", !.failedAt = "key",
                                        !.result = "threw"]
    /\ UNCHANGED <<monVars, fnVars, sumLog, joinLog, quitLog, verifyLog, audio, unlinkAttempts,
                   inputVars, mainVars, localPath, transcriptPath, summaryPath,
                   began, report, recVars, procVars, stopVars, intPc>>

\* transcription.js 17-37, 55: the audio extraction ends, which takes the
\* recording to be there, or fails; its failure is outside the inner try.
ExtractAudio(s) ==
    /\ Idle
    /\ pc[s] = "trExtract"
    /\ \E exists \in Answers(localPath[s]), extracted \in BOOLEAN :
         /\ extracted => exists
         /\ fileOnDisk' = Seen(localPath[s], exists)
         /\ IF extracted
            THEN /\ audio' = "onDisk"
                 /\ pc' = [pc EXCEPT ![s] = "trUpload"]
                 /\ UNCHANGED <<trLog, ended, threw>>
            ELSE /\ TranscriptionThrows(s, "extract")
                 /\ UNCHANGED audio
    /\ UNCHANGED <<monVars, fnVars, sumLog, joinLog, quitLog, verifyLog, unlinkAttempts,
                   inputVars, mainVars, localPath, transcriptPath, summaryPath,
                   began, report, recVars, procState, quitWrites, stopVars, intPc>>

\* A step inside the inner try of transcription.js 57-112 returns and the
\* function goes on to the next step, or throws into the catch of line 113.
InnerStep(s, from, to, step) ==
    /\ Idle
    /\ pc[s] = from
    /\ \E ok \in BOOLEAN :
         /\ pc' = [pc EXCEPT ![s] = IF ok THEN to ELSE "trCleanup"]
         /\ trLog' = [trLog EXCEPT !.failedAt = IF ok THEN @ ELSE step]
    /\ UNCHANGED <<monVars, fnVars, sumLog, joinLog, quitLog, verifyLog, audio, unlinkAttempts,
                   inputVars, mainVars, localPath, transcriptPath, summaryPath,
                   began, ended, threw, report, recVars, procVars, stopVars, intPc>>

\* transcription.js 58-66: the audio file is uploaded.
UploadAudio(s) == InnerStep(s, "trUpload", "trPoll", "upload")

\* the states of the uploaded file that getFile can report
FileStates == {"PROCESSING", "ACTIVE", "FAILED", "STATE_UNSPECIFIED"}

\* A faulty variant of AfterPoll: only ACTIVE goes on to the generation, and a
\* file still PROCESSING is given up.
AfterPollActiveOnly(state) == IF state = "ACTIVE" THEN "trGenerate" ELSE "trCleanup"

\* transcription.js 70-78: what follows a fetch of the file's state.  While it
\* is PROCESSING the fetch is repeated (after 2 s); FAILED throws; any other
\* state goes on to the generation.
AfterPoll(state) ==
    IF state = "PROCESSING" THEN "trPoll"
    ELSE IF state = "FAILED" THEN "trCleanup"
    ELSE "trGenerate"

\* transcription.js 69-78: the state of the uploaded file is fetched, before
\* the loop or in it.  The fetch itself may throw.
PollFile(s) ==
    /\ Idle
    /\ pc[s] = "trPoll"
    /\ \E answer \in FileStates \cup {"error"} :
         LET next == IF answer = "error" THEN "trCleanup" ELSE AfterPoll(answer)
         IN  /\ pc' = [pc EXCEPT ![s] = next]
             /\ trLog' = [trLog EXCEPT
                    !.fileState = answer,
                    !.polls = IF @ < MaxFilePolls THEN @ + 1 ELSE @,
                    !.failedAt = IF next = "trCleanup" THEN "poll" ELSE @]
    /\ UNCHANGED <<monVars, fnVars, sumLog, joinLog, quitLog, verifyLog, audio, unlinkAttempts,
                   inputVars, mainVars, localPath, transcriptPath, summaryPath,
                   began, ended, threw, report, recVars, procVars, stopVars, intPc>>

\* transcription.js 80-93: the request for the transcript is sent; it returns
\* the text, or it throws into the catch of line 113.
GenerateTranscript(s) ==
    /\ Idle
    /\ pc[s] = "trGenerate"
    /\ \E ok \in BOOLEAN :
         /\ pc' = [pc EXCEPT ![s] = IF ok THEN "trUnlink" ELSE "trCleanup"]
         /\ trLog' = [trLog EXCEPT !.generations = @ + 1,
                                   !.failedAt = IF ok THEN @ ELSE "generate"]
    /\ UNCHANGED <<monVars, fnVars, sumLog, joinLog, quitLog, verifyLog, audio, unlinkAttempts,
                   inputVars, mainVars, localPath, transcriptPath, summaryPath,
                   began, ended, threw, report, recVars, procVars, stopVars, intPc>>

\* transcription.js 96, 115: fs.unlink(audioPath).catch(() => { }) - the step
\* after the deletion is the same whether it succeeded or not.
AfterUnlink(deleted, next) == next

\* transcription.js 95-96: on the way to success the audio file is deleted
\* before the transcript is written.
UnlinkAudio(s) ==
    /\ Idle
    /\ pc[s] = "trUnlink"
    /\ unlinkAttempts' = unlinkAttempts + 1
    /\ \E deleted \in BOOLEAN :
         /\ audio' = IF deleted THEN "deleted" ELSE audio
         /\ pc' = [pc EXCEPT ![s] = AfterUnlink(deleted, "trWrite")]
         /\ trLog' = [trLog EXCEPT !.failedAt =
                         IF AfterUnlink(deleted, "trWrite") = "trWrite" THEN @
                         ELSE "unlink"]
    /\ UNCHANGED <<monVars, fnVars, sumLog, joinLog, quitLog, verifyLog,
                   inputVars, mainVars, localPath, transcriptPath, summaryPath,
                   began, ended, threw, report, recVars, procVars, stopVars, intPc>>

\* transcription.js 101-112, index.js 79-82: the transcript is written.  On
\* success transcribeVideo returns, the session sets its transcriptPath and
\* calls generateSummary; a failed write throws into the catch of line 113.
WriteTranscript(s) ==
    /\ Idle
    /\ pc[s] = "trWrite"
    /\ \E ok \in BOOLEAN :
         IF ok
         THEN /\ trLog' = [trLog EXCEPT !.written = TRUE, !.result = "returned"]
              /\ transcriptPath' = [transcriptPath EXCEPT ![s] = TRUE]
              /\ began' = [began EXCEPT ![s] = @ \cup {"summarize"}]
              /\ ended' = [ended EXCEPT ![s] = @ \cup {"transcribe"}]
              /\ pc' = [pc EXCEPT ![s] = "summarize"]
         ELSE /\ trLog' = [trLog EXCEPT !.failedAt = "write"]
              /\ pc' = [pc EXCEPT ![s] = "trCleanup"]
              /\ UNCHANGED <<transcriptPath, began, ended>>
    /\ UNCHANGED <<monVars, fnVars, sumLog, joinLog, quitLog, verifyLog, audio, unlinkAttempts,
                   inputVars, mainVars, localPath, summaryPath, threw, report,
                   recVars, procVars, stopVars, intPc>>

\* A faulty variant of CleanupAudio: the catch block rethrows without deleting
\* the audio file.
RethrowWithoutCleanup(s) ==
    /\ Idle
    /\ pc[s] = "trCleanup"
    /\ TranscriptionThrows(s, trLog.failedAt)
    /\ UNCHANGED <<monVars, fnVars, sumLog, joinLog, quitLog, verifyLog, audio, unlinkAttempts,
                   inputVars, mainVars, localPath, transcriptPath, summaryPath,
                   began, report, recVars, procVars, stopVars, intPc>>

\* transcription.js 113-117: the catch of the inner try deletes the audio file,
\* whether that succeeds or not, and rethrows the error it caught.
CleanupAudio(s) ==
    /\ Idle
    /\ pc[s] = "trCleanup"
    /\ unlinkAttempts' = unlinkAttempts + 1
    /\ \E deleted \in BOOLEAN : audio' = IF deleted THEN "deleted" ELSE audio
    /\ TranscriptionThrows(s, trLog.failedAt)
    /\ UNCHANGED <<monVars, fnVars, sumLog, joinLog, quitLog, verifyLog,
                   inputVars, mainVars, localPath, transcriptPath, summaryPath,
                   began, report, recVars, procVars, stopVars, intPc>>

\* A faulty variant of GenerateSummary: the API key is looked at only after
\* the request was sent.
GenerateSummaryLateKeyCheck(keySet, requestOk, writeOk) ==
    IF ~requestOk \/ ~keySet
    THEN [result |-> "threw", failedAt |-> IF requestOk THEN "key" ELSE "generate",
          requests |-> 1, written |-> FALSE]
    ELSE [result |-> IF writeOk THEN "returned" ELSE "threw",
          failedAt |-> IF writeOk THEN "none" ELSE "write",
          requests |-> 1, written |-> writeOk]

\* screenRecorder.js 172-231: generateSummary throws at once without the API
\* key (174-177); with it, it sends one request (213) and writes the summary
\* (217-218).  Whatever fails is logged and rethrown (227-230).
GenerateSummary(keySet, requestOk, writeOk) ==
    IF ~keySet
    THEN [result |-> "threw", failedAt |-> "key", requests |-> 0, written |-> FALSE]
    ELSE IF ~requestOk
    THEN [result |-> "threw", failedAt |-> "generate", requests |-> 1, written |-> FALSE]
    ELSE IF ~writeOk
    THEN [result |-> "threw", failedAt |-> "write", requests |-> 1, written |-> FALSE]
    ELSE [result |-> "returned", failedAt |-> "none", requests |-> 1, written |-> TRUE]

\* index.js 82-93: generateSummary is called, in the process whose API key
\* transcribeVideo has read; the session sets its summaryPath when it returns
\* and its catch logs what it throws.
Summarize(s) ==
    /\ Idle
    /\ pc[s] = "summarize"
    /\ \E requestOk, writeOk \in BOOLEAN :
         /\ sumLog' = GenerateSummary(trLog.key = "set", requestOk, writeOk)
         /\ summaryPath' = [summaryPath EXCEPT ![s] = sumLog'.result = "returned"]
         /\ threw' = [threw EXCEPT ![s] = @ \cup
                         (IF sumLog'.result = "returned" THEN {} ELSE {"summarize"})]
    /\ ended' = [ended EXCEPT ![s] = @ \cup {"summarize"}]
    /\ pc' = [pc EXCEPT ![s] = "report"]
    /\ UNCHANGED <<monVars, fnVars, joinLog, quitLog, verifyLog, audio, unlinkAttempts, trLog,
                   inputVars, mainPc, exitStatus, nFired, localPath,
                   transcriptPath, began, report, recVars, procVars, stopVars, intPc>>

\* index.js 95-109: the final report; runRecordingSession returns.
Report(s) ==
    /\ Idle
    /\ pc[s] = "report"
    /\ began' = [began EXCEPT ![s] = @ \cup {"report"}]
    /\ ended' = [ended EXCEPT ![s] = @ \cup {"report"}]
    /\ report' = [report EXCEPT ![s] = FinalReport(s, transcriptPath[s], summaryPath[s])]
    /\ SessionDone(s)
    /\ UNCHANGED <<unitVars, inputVars, mainPc, nFired, localPath, transcriptPath,
                   summaryPath, threw, recVars, procVars, stopVars, intPc>>

\* The inputs of a run with one session: either trigger mode, a valid
\* configuration with any known provider, one cron fire, no interrupt.
StagesInputs ==
    /\ runNow \in BOOLEAN
    /\ schedEnabled \in BOOLEAN
    /\ config \in {cfg \in Configs : LoadConfig(cfg) = "loaded"}
    /\ cronBudget = 1
    /\ sigBudget = 0

StagesInit == StagesInputs /\ InitProgram /\ InitMonitor /\ InitStages /\ InitComputation

StagesNext ==
    \/ Main
    \/ CronFire
    \/ \E s \in Sessions : JoinParseLink(s)
    \/ \E s \in Sessions : JoinOpenLink(s)
    \/ \E s \in Sessions : JoinAutomate(s)
    \/ \E s \in Sessions : StartReturn(s)
    \/ \E s \in Sessions : StopScreenRecording(s)
    \/ \E p \in Procs : ProcClose(p)
    \/ \E c \in Callers : CloseHandler(c)
    \/ \E c \in Callers : StatDone(c)
    \/ \E s \in Sessions : Catch(s)
    \/ \E s \in Sessions : QuitGraceful(s)
    \/ \E s \in Sessions : QuitKill(s)
    \/ \E s \in Sessions : Verify(s)
    \/ \E s \in Sessions : TranscribeBegin(s)
    \/ \E s \in Sessions : ExtractAudio(s)
    \/ \E s \in Sessions : UploadAudio(s)
    \/ \E s \in Sessions : PollFile(s)
    \/ \E s \in Sessions : GenerateTranscript(s)
    \/ \E s \in Sessions : UnlinkAudio(s)
    \/ \E s \in Sessions : WriteTranscript(s)
    \/ \E s \in Sessions : CleanupAudio(s)
    \/ \E s \in Sessions : Summarize(s)
    \/ \E s \in Sessions : Report(s)
    \/ LoopDrained

SpecStages == StagesInit /\ [][StagesNext]_vars

(***************************************************************************)
(* Claims about the stages, checked on SpecStages                          *)
(***************************************************************************)

\* C15: once the UI-automation part of joinZoomMeeting has been run, however
\* it went (script not written, no join button, the meeting window not
\* appearing in time, a script error, or success), joinZoomMeeting has
\* returned, the session's join stage has not thrown, and the session has gone
\* on to startScreenRecording, which spawned the capture subprocess.
AutomationFailureIsNotFatal ==
    joinLog.script # "none" =>
        /\ joinLog.result = "returned"
        /\ \A s \in Sessions :
             "join" \in began[s] =>
                 /\ "join" \in ended[s] \ threw[s]
                 /\ "start" \in began[s]
                 /\ procState[s] # "none"

\* The automation script timed out waiting for the meeting window, and the
\* session started its recording and got as far as monitoring the meeting.
RecordedAfterAutomationTimeout ==
    /\ joinLog.script = "timeout"
    /\ \E s \in Sessions :
         /\ "start" \in Succeeded(s)
         /\ procState[s] = "running"
         /\ pc[s] = "monitor"

\* C16: joinZoomMeeting throws exactly when the link could not be parsed or
\* the opener failed; then the automation script was not run, and in that
\* session no capture subprocess was spawned, stopScreenRecording was not
\* called (neither by the session nor by its cleanup), no stage after join
\* began and no report was printed.
FailedJoinStartsNothing ==
    /\ joinLog.link = "unparseable" \/ joinLog.opener = "failed" <=>
           joinLog.result = "threw"
    /\ joinLog.link = "unparseable" => joinLog.opener = "none"
    /\ joinLog.result = "threw" =>
           /\ joinLog.script = "none"
           /\ \A s \in Sessions :
                "join" \in began[s] =>
                    /\ "join" \in threw[s]
                    /\ began[s] = {"join"}
                    /\ procState[s] = "none"
                    /\ stopLog[s].n = 0
                    /\ quitLog = NoQuit /\ verifyLog = NoVerification
                    /\ trLog = NoTranscription
                    /\ ~report[s].printed
                    /\ pc[s] \in {"catch", "done"}

\* The opener failed, and the session ended in its catch block with nothing
\* spawned and the recorder's state untouched.
SessionEndedAfterOpenerFailed ==
    /\ joinLog.opener = "failed"
    /\ \E s \in Sessions :
         /\ pc[s] = "done"
         /\ "join" \in threw[s]
         /\ procState[s] = "none"
    /\ ffmpegProcess = Null
    /\ recordingPath = Null

\* C18: quitZoom never throws.  The kill by name is attempted only after the
\* graceful quit failed, and it has been attempted whenever quitZoom
\* completed after a failed graceful quit; after a successful graceful quit
\* it is not attempted.  Whatever the two attempts gave, quitZoom returns, the
\* quit stage is not among the stages that threw, and the session is at or
\* past verification.
QuitZoomNeverFails ==
    /\ quitLog.result \in {"none", "returned"}
    /\ quitLog.kill # "none" => quitLog.graceful = "failed"
    /\ quitLog.result = "returned" =>
           (quitLog.kill # "none" <=> quitLog.graceful = "failed")
    /\ \A s \in Sessions :
         /\ "quit" \notin threw[s]
         /\ "quit" \in ended[s] =>
                /\ quitLog.result = "returned"
                /\ pc[s] = "verify" \/ "verify" \in began[s]

\* The graceful quit and the kill by name both failed, and the session went on
\* and finished its verification.
VerifiedAfterBothQuitsFailed ==
    /\ quitLog.graceful = "failed"
    /\ quitLog.kill = "failed"
    /\ \E s \in Sessions : "verify" \in ended[s]

\* C17: uploadToCloud returns file:// locations of the path it was given when
\* the file is accessible, whatever the provider, and throws when it is not.
\* In a session a verification that threw is only logged: transcription has
\* begun as soon as verification ended, the session does not enter its catch
\* block because of it, and a session that is done after verification has
\* printed its report.
VerificationIsAdvisory ==
    /\ \A path \in Paths, provider \in Providers :
         /\ UploadToCloud(path, TRUE, provider) =
                [result |-> "returned",
                 webUrl |-> [scheme |-> "file", path |-> path],
                 shareLink |-> [scheme |-> "file", path |-> path]]
         /\ UploadToCloud(path, FALSE, provider).result = "threw"
    /\ \A s \in Sessions :
         "verify" \in ended[s] =>
             /\ verifyLog.result \in {"returned", "threw"}
             /\ verifyLog.result = "threw" <=> "verify" \in threw[s]
             /\ verifyLog.result = "returned" =>
                    /\ verifyLog.webUrl = [scheme |-> "file", path |-> localPath[s]]
                    /\ verifyLog.shareLink = verifyLog.webUrl
             /\ "transcribe" \in began[s]
             /\ pc[s] # "catch"
             /\ pc[s] = "done" => report[s].printed

\* With a provider other than local the recording was not accessible at
\* verification; transcription was attempted and the report was printed.
ReportedAfterFailedVerification ==
    /\ config.provider = "google-drive"
    /\ verifyLog.result = "threw"
    /\ \E s \in Sessions :
         /\ "transcribe" \in ended[s]
         /\ report[s].printed
         /\ pc[s] = "done"

\* C20: once extractAudio has returned, transcribeVideo does not finish
\* without having called fs.unlink on the audio file: it has been called
\* before the transcript is written, and before an error of the upload, the
\* readiness poll, the generation or the write is thrown on.  The error that
\* transcribeVideo throws is never the deletion's: a failed deletion leaves
\* the step that follows it as it is.  Before the extraction there is nothing
\* to delete.
AudioDeletedBeforeFinish ==
    /\ audio # "none" /\ trLog.result # "none" => unlinkAttempts >= 1
    /\ trLog.written => unlinkAttempts >= 1
    /\ \A s \in Sessions : pc[s] = "trWrite" => unlinkAttempts = 1
    /\ trLog.result = "threw" =>
           /\ trLog.failedAt \in {"key", "extract", "upload", "poll", "generate", "write"}
           /\ trLog.failedAt \in {"key", "extract"} <=> audio = "none"
           /\ trLog.failedAt \in {"upload", "poll", "generate"} => unlinkAttempts = 1
           /\ trLog.failedAt = "write" => unlinkAttempts = 2
    /\ trLog.result = "returned" => trLog.failedAt = "none" /\ trLog.written
    /\ audio = "none" => unlinkAttempts = 0
    /\ \A deleted \in BOOLEAN : AfterUnlink(deleted, "trWrite") = "trWrite"

\* The transcript generation failed and the deletion of the audio file failed
\* too: transcribeVideo threw the generation's error and the file is still on
\* disk.
GenerationFailedAudioLeftBehind ==
    /\ trLog.result = "threw"
    /\ trLog.failedAt = "generate"
    /\ unlinkAttempts = 1
    /\ audio = "onDisk"

(***************************************************************************)
(* The interrupt handler, checked on the whole program with fairness       *)
(***************************************************************************)

\* The event loop runs a turn that is ready: a subprocess that runs exits at
\* some time, a settled promise's continuation runs, the meeting ends, the
\* cron trigger fires while it has fires left.
SpecLive == Spec /\ WF_vars(Next)

\* the step is the invocation of the SIGINT handler i
InterruptStep(i) == intPc[i] = "none" /\ intPc'[i] # "none"

\* What a SIGINT handler invocation does to the recorder: it calls
\* stopScreenRecording at most once, and not at all (leaving the recorder and
\* its subprocesses as they are) when no recording was ever started; if the
\* subprocess held by the recorder is running, 'q' is written to it; and the
\* handler exits the process, with code 0, in the step in which its stop
\* settled or was found to have nothing to stop, whether it resolved or
\* rejected.
InterruptStopsOnce ==
    [][\A i \in Interrupts :
         /\ InterruptStep(i) =>
                /\ recordingPath = Null => UNCHANGED <<recVars, procVars, stopVars>>
                /\ stopLog'[i].n = IF recordingPath = Null THEN 0 ELSE 1
                /\ \A p \in Procs :
                     ffmpegProcess = p /\ procState[p] = "running" =>
                         quitWrites'[p] = quitWrites[p] + 1
         /\ stopLog'[i].n <= 1
         /\ intPc[i] # "done" /\ intPc'[i] = "done" =>
                /\ exitStatus' = "exit0"
                /\ stops'[i] = NoListener
                /\ stopLog'[i].result # "pending"
      ]_vars

\* C19: a SIGINT handler invocation makes one attempt to stop the recorder
\* (InterruptStopsOnce), and once the handler has been invoked the process
\* does exit with code 0.
InterruptStopsOnceThenExits ==
    /\ InterruptStopsOnce
    /\ \A i \in Interrupts : intPc[i] # "none" ~> exitStatus = "exit0"

\* C21: a fetch that reports the uploaded file PROCESSING is followed by
\* another fetch, however many there have been, and the poll is left only in
\* a step whose fetch reported another state (or threw).  FAILED makes
\* transcribeVideo throw at the poll with no generation request sent; every
\* other state goes on to the generation, and one request is sent.  No
\* request is sent from anywhere else, so none is sent while the file is
\* PROCESSING, and a written transcript comes from exactly one request.
ReadinessPollEndsWithProcessing ==
    [][/\ \A s \in Sessions :
         /\ pc[s] = "trPoll" /\ trLog'.fileState = "PROCESSING" =>
                /\ pc'[s] = "trPoll"
                /\ trLog'.polls = IF trLog.polls < MaxFilePolls THEN trLog.polls + 1
                                  ELSE MaxFilePolls
         /\ pc[s] = "trPoll" /\ pc'[s] # "trPoll" =>
                /\ trLog'.fileState # "PROCESSING"
                /\ trLog'.fileState = "FAILED" =>
                       pc'[s] = "trCleanup" /\ trLog'.failedAt = "poll"
                /\ trLog'.fileState \in FileStates \ {"FAILED"} => pc'[s] = "trGenerate"
         /\ pc[s] = "trGenerate" /\ pc'[s] # "trGenerate" => trLog'.generations = 1
       /\ (\A s \in Sessions : pc[s] # "trGenerate") =>
              trLog'.generations = trLog.generations
       /\ trLog'.fileState \in {"none", "PROCESSING", "FAILED", "error"} =>
              trLog'.generations = 0
       /\ trLog'.written => trLog'.generations = 1
      ]_vars

\* The file was reported PROCESSING until the count of fetches was full, then
\* in a state that is neither ACTIVE nor FAILED; one generation request was
\* sent and transcribeVideo returned.
TranscribedAfterLongPoll ==
    /\ trLog.polls = MaxFilePolls
    /\ trLog.fileState = "STATE_UNSPECIFIED"
    /\ trLog.generations = 1
    /\ trLog.result = "returned"

\* C22: without the API key transcribeVideo throws before it has extracted
\* audio, uploaded, polled or requested anything, and generateSummary throws
\* before it has sent a request or written anything.  In a session the failure
\* is caught: generateSummary is then not called at all, the session does not
\* enter its catch block, and once it is done it has printed the report with
\* the recording path and neither transcript nor summary.
MissingKeyFailsStageOnly ==
    /\ \A requestOk, writeOk \in BOOLEAN :
         GenerateSummary(FALSE, requestOk, writeOk) =
             [result |-> "threw", failedAt |-> "key", requests |-> 0, written |-> FALSE]
    /\ trLog.key = "absent" =>
           /\ trLog = [NoTranscription EXCEPT !.key = "absent", !.failedAt = "key",
                                              !.result = "threw"]
           /\ audio = "none"
           /\ unlinkAttempts = 0
           /\ sumLog = NoSummary
           /\ \A s \in Sessions :
                "transcribe" \in began[s] =>
                    /\ "transcribe" \in threw[s]
                    /\ "summarize" \notin began[s]
                    /\ pc[s] \in {"report", "done"}
                    /\ pc[s] = "done" =>
                           /\ localPath[s] # Null
                           /\ report[s] = [printed |-> TRUE, recording |-> localPath[s],
                                           transcript |-> FALSE, summary |-> FALSE]
    /\ sumLog.failedAt = "key" => sumLog.requests = 0 /\ ~sumLog.written

\* The API key was absent, and the session finished with a report that lists
\* the recording alone.
ReportedWithoutApiKey ==
    /\ trLog.key = "absent"
    /\ \E s \in Sessions :
         /\ pc[s] = "done"
         /\ report[s].printed
         /\ report[s].recording = s

(***************************************************************************)
(* Claims about the quit signal and the exit code, checked on the whole    *)
(* program                                                                 *)
(***************************************************************************)

\* C29: 'q' is written to a subprocess's stdin only if nothing was written to
\* it before (after the first write the stream has been ended) and only while
\* the subprocess runs, whoever calls stopScreenRecording: the session, its
\* cleanup or an interrupt handler.
QuitWrittenOnce ==
    [][\A p \in Procs :
         quitWrites'[p] # quitWrites[p] =>
             /\ quitWrites[p] = 0
             /\ procState[p] = "running"
      ]_vars

\* C30: the process exits with code 1 only out of main's catch, when loading
\* the configuration or registering the schedule failed; in particular an
\* immediate run whose session failed at join or at stop and has returned has
\* exited with code 0.
ExitOneOnlyFromMain ==
    /\ exitStatus = "exit1" => mainPc = "failed"
    /\ \A s \in Sessions :
         mainPc = "immediate" /\ pc[s] = "done" => exitStatus = "exit0"

\* C27: a stopScreenRecording call that found a handle settles (unless the
\* process exits first), whatever the state of the subprocess when it was
\* called; and a session waiting for its stop goes on, to its report or to
\* its catch block and out of it (unless the process exits first).  Every
\* subprocess that runs does exit (SpecLive).
StopEventuallySettles ==
    /\ \A c \in Callers :
         stopLog[c].result = "pending" ~>
             (stopLog[c].result # "pending" \/ exitStatus # "running")
    /\ \A s \in Sessions :
         pc[s] = "stopWait" ~> (pc[s] = "done" \/ exitStatus # "running")

\* C28: from the moment startScreenRecording has returned a path to a session,
\* that is the session's recording path, unchanged, up to and in its report:
\* it is what verification and transcription are given and what the report
\* lists.
ReportsOwnRecording ==
    [][\A s \in Sessions :
         /\ "start" \in ended[s] => localPath'[s] = localPath[s]
         /\ report'[s].printed =>
                /\ report'[s].recording = localPath'[s]
                /\ localPath'[s] # Null
      ]_vars

(***************************************************************************)
(* The computations inside joinZoomMeeting, startScreenRecording and       *)
(* generateSummary taken by themselves: the meeting identifier, the deep   *)
(* link, the quality preset and the transcript text put into the prompt.   *)
(***************************************************************************)

\* segments of a meeting link that are looked at
MaxSegments == 3
\* characters of a password that are looked at
MaxPwdLen == 2
\* part_000 29: the bare run of digits taken for an identifier, \d{9,11}
MinIdDigits == 9
MaxIdDigits == 11
\* screenRecorder.js 211: characters of the transcript put into the prompt
PromptLimit == 30000

\* the least element of a non-empty set of numbers
FirstOf(S) == CHOOSE k \in S : \A j \in S : k <= j

\* A meeting link is a sequence of segments: the text "/j/", a maximal run of
\* digits of some length, or other text without digits.
DigitRuns == {1, MinIdDigits - 1, MinIdDigits, MaxIdDigits, MaxIdDigits + 1}
Segments == {[kind |-> "marker", len |-> 0], [kind |-> "text", len |-> 0]}
            \cup {[kind |-> "digits", len |-> n] : n \in DigitRuns}
Links == {link \in UNION {[1..n -> Segments] : n \in 1..MaxSegments} :
             \A k \in 1..(Len(link) - 1) :
                 ~(link[k].kind = "digits" /\ link[k + 1].kind = "digits")}

\* the segments of the link where "/j/" is followed by digits
AfterMarker(link) ==
    {k \in 2..Len(link) : link[k - 1].kind = "marker" /\ link[k].kind = "digits"}

NoId == [found |-> FALSE, seg |-> 0, digits |-> 0]

\* part_000 24-35: the identifier is the digits after the first "/j/" that has
\* digits after it (/\/j\/(\d+)/); failing that, the match of /(\d{9,11})/,
\* which is the first MaxIdDigits digits at most of the first run of
\* MinIdDigits digits or more; failing that, joinZoomMeeting throws.
MeetingId(link) ==
    IF AfterMarker(link) # {}
    THEN LET k == FirstOf(AfterMarker(link))
         IN  [found |-> TRUE, seg |-> k, digits |-> link[k].len]
    ELSE LET long == {k \in 1..Len(link) :
                         link[k].kind = "digits" /\ link[k].len >= MinIdDigits}
         IN  IF long = {} THEN NoId
             ELSE LET k == FirstOf(long)
                  IN  [found |-> TRUE, seg |-> k,
                       digits |-> IF link[k].len > MaxIdDigits THEN MaxIdDigits
                                  ELSE link[k].len]

\* Passwords are strings over a letter and two characters that
\* encodeURIComponent escapes; the empty string stands for no password (unset
\* or empty in the configuration, no pwd= with a value in the link).
PwdChars == {"a", "%", "="}
Passwords == UNION {[1..n -> PwdChars] : n \in 0..MaxPwdLen}

\* encodeURIComponent of one character, and of a string
EncodeChar(c) ==
    IF c = "%" THEN <<"%", "2", "5">>
    ELSE IF c = "=" THEN <<"%", "3", "D">>
    ELSE <<c>>
RECURSIVE EncodeURIComponent(_)
EncodeURIComponent(str) ==
    IF str = <<>> THEN <<>>
    ELSE EncodeChar(Head(str)) \o EncodeURIComponent(Tail(str))

\* part_000 20, 37-56: the parameters of the deep link.  The password is the
\* configured one or, without one, the value captured from the link's pwd=
\* (/[?&]pwd=([^&]+)/); whichever it is, it is passed through
\* encodeURIComponent; with neither there is no pwd parameter.
DeepLink(cfgPwd, linkPwd) ==
    LET password == IF cfgPwd # <<>> THEN cfgPwd ELSE linkPwd
    IN  [confno |-> TRUE,
         hasPwd |-> password # <<>>,
         pwd |-> EncodeURIComponent(password),
         uname |-> TRUE]

\* quality strings: the three presets' names, names that are no property of
\* anything, and names that every object inherits
Qualities == {"high", "medium", "low", "ultra", "High", "", "constructor", "toString",
              "__proto__"}
PresetNames == {"high", "medium", "low"}
InheritedNames == {"constructor", "toString", "__proto__"}

\* screenRecorder.js 25-29
Preset(name) ==
    IF name = "high" THEN [width |-> 1920, height |-> 1080, framerate |-> 30]
    ELSE IF name = "medium" THEN [width |-> 1280, height |-> 720, framerate |-> 30]
    ELSE [width |-> 854, height |-> 480, framerate |-> 24]

\* screenRecorder.js 31-45: qualitySettings[quality] || qualitySettings.high.
\* The lookup finds a preset under its name; under a name that the object
\* literal inherits it finds that inherited value, which is truthy and has no
\* framerate, so settings.framerate.toString() (line 43) throws and
\* startScreenRecording rethrows (84-87); under any other name it finds
\* nothing and the high preset is taken.
SelectQuality(quality) ==
    IF quality \in PresetNames
    THEN [result |-> "selected", settings |-> Preset(quality)]
    ELSE IF quality \in InheritedNames
    THEN [result |-> "threw", settings |-> Preset("high")]
    ELSE [result |-> "selected", settings |-> Preset("high")]

\* lengths of a text, around the limit
TextLengths == {1, PromptLimit - 1, PromptLimit, PromptLimit + 1, PromptLimit + PromptLimit}
\* a field of the transcript argument: absent (length 0) or a text
FieldLengths == {0} \cup TextLengths
\* The transcript argument: a string of some length, or an object with or
\* without the fields transcript and text.
Transcripts ==
    [kind : {"string"}, len : {0} \cup TextLengths, transcript : {0}, text : {0}]
    \cup [kind : {"object"}, len : {0}, transcript : FieldLengths, text : FieldLengths]

\* A faulty variant of EmbedTranscript: a text of exactly PromptLimit
\* characters gets the truncation marker.
EmbedTranscriptMarksAtLimit(arg) ==
    LET source == IF arg.kind = "string" THEN "argument"
                  ELSE IF arg.transcript > 0 THEN "transcript"
                  ELSE IF arg.text > 0 THEN "text"
                  ELSE "json"
        length == IF source = "argument" THEN arg.len
                  ELSE IF source = "transcript" THEN arg.transcript
                  ELSE IF source = "text" THEN arg.text
                  ELSE 1
    IN  [source |-> source,
         embedded |-> IF length < PromptLimit THEN length ELSE PromptLimit,
         marker |-> length >= PromptLimit]

\* screenRecorder.js 185-211: the text is the argument when it is a string,
\* else its transcript field, else its text field, else its JSON form (some
\* text of unknown length, here of length 1); the prompt embeds
\* substring(0, 30000) of it, and the truncation marker when its length
\* exceeds 30000.
EmbedTranscript(arg) ==
    LET source == IF arg.kind = "string" THEN "argument"
                  ELSE IF arg.transcript > 0 THEN "transcript"
                  ELSE IF arg.text > 0 THEN "text"
                  ELSE "json"
        length == IF source = "argument" THEN arg.len
                  ELSE IF source = "transcript" THEN arg.transcript
                  ELSE IF source = "text" THEN arg.text
                  ELSE 1
    IN  [source |-> source,
         embedded |-> IF length < PromptLimit THEN length ELSE PromptLimit,
         marker |-> length > PromptLimit]

\* the computations and their inputs
Computations ==
    {[fn |-> "meetingId", link |-> link] : link \in Links}
    \cup {[fn |-> "deepLink", cfgPwd |-> c, linkPwd |-> l] : c, l \in Passwords}
    \cup {[fn |-> "quality", quality |-> q] : q \in Qualities}
    \cup {[fn |-> "embed", arg |-> arg] : arg \in Transcripts}

\* the computation named fn is made on the input drawn for it
Compute(fn, result) ==
    /\ fnCall.fn = fn
    /\ fnRet = NoComputation
    /\ fnRet' = [fn |-> fn, out |-> result]
    /\ UNCHANGED <<progVars, monVars, stageVars, fnCall>>

ExtractMeetingId == Compute("meetingId", MeetingId(fnCall.link))
BuildDeepLink == Compute("deepLink", DeepLink(fnCall.cfgPwd, fnCall.linkPwd))
ChooseQuality == Compute("quality", SelectQuality(fnCall.quality))
BuildPrompt == Compute("embed", EmbedTranscript(fnCall.arg))

HelpersInit ==
    /\ UnitInputs /\ InitProgram /\ InitMonitor /\ InitStages
    /\ fnCall \in Computations
    /\ fnRet = NoComputation

HelpersNext == ExtractMeetingId \/ BuildDeepLink \/ ChooseQuality \/ BuildPrompt

SpecHelpers == HelpersInit /\ [][HelpersNext]_vars

\* C23: for every meeting link, when it contains "/j/" followed by digits the
\* identifier is exactly that run of digits, whatever other digits the link
\* holds; otherwise, when it contains a run of 9 to 11 digits, the identifier
\* is such a run; otherwise no identifier is found and joining fails.
MeetingIdFromLink ==
    fnRet.fn = "meetingId" =>
        LET link == fnCall.link
            out == fnRet.out
            bare == {k \in 1..Len(link) :
                        /\ link[k].kind = "digits"
                        /\ link[k].len >= 9
                        /\ link[k].len <= 11}
        IN  IF AfterMarker(link) # {}
            THEN /\ out.found
                 /\ out.seg = FirstOf(AfterMarker(link))
                 /\ out.digits = link[out.seg].len
            ELSE IF bare # {}
            THEN /\ out.found
                 /\ out.seg \in bare
                 /\ out.digits = link[out.seg].len
            ELSE ~out.found

\* C24: for every configured password and link, the deep link always has
\* confno and uname; its pwd is the configured password percent-encoded when
\* one is set; else the value of the link's pwd= when the link has one; and
\* there is no pwd when there is neither.
DeepLinkPassword ==
    fnRet.fn = "deepLink" =>
        LET cfgPwd == fnCall.cfgPwd
            linkPwd == fnCall.linkPwd
            out == fnRet.out
        IN  /\ out.confno
            /\ out.uname
            /\ cfgPwd # <<>> => out.hasPwd /\ out.pwd = EncodeURIComponent(cfgPwd)
            /\ (cfgPwd = <<>> /\ linkPwd # <<>>) => out.hasPwd /\ out.pwd = linkPwd
            /\ (cfgPwd = <<>> /\ linkPwd = <<>>) => ~out.hasPwd

\* C25: for every quality string a preset is selected and nothing fails:
\* 1920x1080 at 30 for "high", 1280x720 at 30 for "medium", 854x480 at 24 for
\* "low", and 1920x1080 at 30 for every other string.
QualityAlwaysSelectsPreset ==
    fnRet.fn = "quality" =>
        LET quality == fnCall.quality
            out == fnRet.out
        IN  /\ out.result = "selected"
            /\ out.settings =
                   IF quality = "medium"
                   THEN [width |-> 1280, height |-> 720, framerate |-> 30]
                   ELSE IF quality = "low"
                   THEN [width |-> 854, height |-> 480, framerate |-> 24]
                   ELSE [width |-> 1920, height |-> 1080, framerate |-> 30]

\* C26: the prompt embeds at most the first 30,000 characters of the text: a
\* text of at most 30,000 characters whole and without the truncation marker,
\* a longer one as its first 30,000 characters with the marker; the text is
\* the argument when it is a string, else its transcript field, else its text
\* field.
PromptEmbedsAtMostLimit ==
    fnRet.fn = "embed" =>
        LET arg == fnCall.arg
            out == fnRet.out
            length == IF arg.kind = "string" THEN arg.len
                      ELSE IF arg.transcript > 0 THEN arg.transcript
                      ELSE arg.text
        IN  /\ out.embedded <= 30000
            /\ arg.kind = "string" => out.source = "argument"
            /\ (arg.kind = "object" /\ arg.transcript > 0) => out.source = "transcript"
            /\ (arg.kind = "object" /\ arg.transcript = 0 /\ arg.text > 0) =>
                   out.source = "text"
            /\ out.source # "json" =>
                   /\ length <= 30000 => out.embedded = length /\ ~out.marker
                   /\ length > 30000 => out.embedded = 30000 /\ out.marker

\* An object without a transcript field, whose text field is longer than the
\* limit, has been embedded: cut and marked.
LongTextFieldTruncated ==
    /\ fnRet.fn = "embed"
    /\ fnCall.arg.kind = "object"
    /\ fnCall.arg.transcript = 0
    /\ fnCall.arg.text > PromptLimit
    /\ fnRet.out.source = "text"
    /\ fnRet.out.embedded = PromptLimit
    /\ fnRet.out.marker

\* C31: quitZoom is asked for only by a session whose stopScreenRecording has
\* resolved (to a path, or to null with no handle held), and only after that
\* stop; a session that failed at join or at its stop has not called quitZoom,
\* and in a run of one session nothing of quitZoom has then been run.
QuitOnlyAfterResolvedStop ==
    /\ \A s \in Sessions :
          /\ ("quit" \in began[s] \/ pc[s] \in {"quit", "quitKill"}) =>
                 /\ stopLog[s].n = 1
                 /\ stopLog[s].result \in {"path", "null"}
                 /\ "stop" \in ended[s]
                 /\ threw[s] \cap {"join", "stop"} = {}
          /\ threw[s] \cap {"join", "stop"} # {} =>
                 /\ "quit" \notin began[s]
                 /\ pc[s] \in {"catch", "cleanupWait", "done"}
                 /\ quitLog = NoQuit
    /\ quitLog # NoQuit =>
           \E s \in Sessions : /\ "quit" \in began[s]
                               /\ stopLog[s].result \in {"path", "null"}

\* The session's stop rejected (the encoder's exit code, or the output file
\* missing), the session has gone through its catch block, whose cleanup stop
\* found no handle, and has returned; nothing of quitZoom has been run.
AbortedAtStopWithoutQuit ==
    \E s \in Sessions :
        /\ pc[s] = "done"
        /\ stopLog[s] = [n |-> 2, result |-> "null"]
        /\ "stop" \in threw[s]
        /\ "quit" \notin began[s]
        /\ quitLog = NoQuit

====
